---- MODULE Spec2Model ----
(***************************************************************************)
(* ClipTrace content script: text normaliser, structural address codec,    *)
(* multi-match scorer, relocation cascade, highlight lifecycle and the     *)
(* capture of a copy event.                                                *)
(*                                                                         *)
(* A JavaScript string is a sequence of characters; a character is a       *)
(* one-character TLA+ string, or a named token for a character that has no *)
(* printable form (U3000, U200B, ...).  JavaScript positions are 0-based,  *)
(* the sequences here are 1-based: position p of the code is element p+1.  *)
(***************************************************************************)
EXTENDS Integers, Sequences, FiniteSets, TLC

VARIABLES
    nIn,        \* normaliser harness: the string the harness started from
    nText,      \* normaliser harness: the current string
    nApplied,   \* normaliser harness: how often normalizeText was applied to nText
    xDoc,       \* codec harness: the document
    xElem,      \* codec harness: uid of the element that was encoded
    xAddr,      \* codec harness: the address getXPath returned for it
    xFound,     \* codec harness: uid of the element getElementByXPath returned
    xStage,     \* codec harness: "start", "encoded" or "decoded"
    page,       \* which page the tab shows (0: the tab navigated away)
    document,   \* document.body and the tree below it
    scrollHeight, \* document.body.scrollHeight
    calls,      \* the highlightText calls, in the order of their messages
    pc,         \* where each call stands: waiting, in the cascade at a step, ...
    timers,     \* the pending setTimeout callbacks, in the order they were set
    marks,      \* the <mark> elements createHighlightMark made
    sDoc,       \* scorer harness: a document with one text node
    sIndex,     \* scorer harness: the position of the match in the node
    sInfo,      \* scorer harness: the anchor the candidate is scored with
    sBase,      \* scorer harness: the score before a fingerprint was added
    sScore,     \* scorer harness: the score with the fingerprint
    cIn,        \* capture: the page, the selection and the stored settings
    cPc,        \* capture: where the copy listener stands
    cLocal,     \* capture: the locals of the copy listener
    cSent,      \* capture: the messages sent to the background script
    clipboardHistory,   \* storage: chrome.storage.local's clipboardHistory
    sidebarHistory,     \* storage: the sidebar's variable clipboardHistory
    changes,    \* storage: storage.onChanged events not yet delivered
    saves,      \* storage: the calls of saveClipboardItem
    job,        \* storage: the import or cleanup of the sidebar at its await
    timeouts,   \* storage: the ids whose delete timeout is pending
    clock,      \* storage: Date.now()
    ledger      \* storage: what was saved and deleted so far, and the last step

normVars == <<nIn, nText, nApplied>>
codecVars == <<xDoc, xElem, xAddr, xFound, xStage>>
pageVars == <<page, document, scrollHeight, calls, pc, timers, marks>>
scoreVars == <<sDoc, sIndex, sInfo, sBase, sScore>>
captureVars == <<cIn, cPc, cLocal, cSent>>
storeVars == <<clipboardHistory, sidebarHistory, changes, saves, job, timeouts,
               clock, ledger>>
vars == <<nIn, nText, nApplied, xDoc, xElem, xAddr, xFound, xStage,
          page, document, scrollHeight, calls, pc, timers, marks,
          sDoc, sIndex, sInfo, sBase, sScore,
          cIn, cPc, cLocal, cSent,
          clipboardHistory, sidebarHistory, changes, saves, job, timeouts,
          clock, ledger>>

-----------------------------------------------------------------------------
(* Characters and JavaScript string primitives                             *)

Chars(str) == [i \in 1..Len(str) |-> SubSeq(str, i, i)]

UpperLetters == Chars("ABCDEFGHIJKLMNOPQRSTUVWXYZ")
LowerLetters == Chars("abcdefghijklmnopqrstuvwxyz")

\* U+3000 ideographic (full-width) space, U+00A0 no-break space,
\* U+FEFF byte-order mark, U+200B..U+200D zero-width space/non-joiner/joiner.
\* The class \s of a JavaScript regular expression, and the characters
\* String.prototype.trim removes, both contain U+3000, U+00A0 and U+FEFF.
JsWhiteSpace == {" ", "\t", "\n", "\r", "\f", "U00A0", "U3000", "UFEFF"}
ZeroWidthClass == {"U200B", "U200C", "U200D", "UFEFF"}

Min2(a, b) == IF a < b THEN a ELSE b
Max2(a, b) == IF a > b THEN a ELSE b
Clamp(x, lo, hi) == Max2(lo, Min2(x, hi))

toLowerChar(c) ==
    IF \E i \in 1..26 : UpperLetters[i] = c
    THEN LowerLetters[CHOOSE i \in 1..26 : UpperLetters[i] = c]
    ELSE c

toLowerCase(s) == [i \in 1..Len(s) |-> toLowerChar(s[i])]

\* String.prototype.substring(a, b): both ends clamped to 0..length, swapped
\* when a > b.
Substring(s, a, b) ==
    LET ca == Clamp(a, 0, Len(s))
        cb == Clamp(b, 0, Len(s))
    IN  SubSeq(s, Min2(ca, cb) + 1, Max2(ca, cb))

SubstringFrom(s, a) == Substring(s, a, Len(s))

\* String.prototype.slice(a, b) for a possibly negative start.
Slice(s, a, b) ==
    LET ca == IF a < 0 THEN Max2(Len(s) + a, 0) ELSE Min2(a, Len(s))
        cb == IF b < 0 THEN Max2(Len(s) + b, 0) ELSE Min2(b, Len(s))
    IN  SubSeq(s, ca + 1, cb)

MatchesAt(hay, needle, p) ==
    /\ p >= 0
    /\ p + Len(needle) <= Len(hay)
    /\ \A k \in 1..Len(needle) : hay[p + k] = needle[k]

\* String.prototype.indexOf(needle, from): the first position >= from at
\* which needle occurs, -1 when there is none.
IndexOfFrom(hay, needle, from) ==
    LET start == Clamp(from, 0, Len(hay))
        hits == {p \in start..(Len(hay) - Len(needle)) : MatchesAt(hay, needle, p)}
    IN  IF hits = {} THEN -1
        ELSE CHOOSE p \in hits : \A q \in hits : p <= q

IndexOf(hay, needle) == IndexOfFrom(hay, needle, 0)
Includes(hay, needle) == IndexOf(hay, needle) # -1
StartsWith(hay, needle) == MatchesAt(hay, needle, 0)
EndsWith(hay, needle) ==
    /\ Len(needle) <= Len(hay)
    /\ MatchesAt(hay, needle, Len(hay) - Len(needle))

\* String.prototype.trim
Trim(s) ==
    IF \A i \in 1..Len(s) : s[i] \in JsWhiteSpace THEN <<>>
    ELSE SubSeq(s,
             CHOOSE i \in 1..Len(s) :
                 /\ s[i] \notin JsWhiteSpace
                 /\ \A j \in 1..(i - 1) : s[j] \in JsWhiteSpace,
             CHOOSE i \in 1..Len(s) :
                 /\ s[i] \notin JsWhiteSpace
                 /\ \A j \in (i + 1)..Len(s) : s[j] \in JsWhiteSpace)

\* replace(/[\s\u3000]+/g, ' '): every run of white space becomes one space
CollapseWhiteSpace(s) ==
    LET inRun(i) == s[i] \in JsWhiteSpace \cup {"U3000"}
        replaced == [i \in 1..Len(s) |->
                        IF ~ inRun(i) THEN s[i]
                        ELSE IF i > 1 /\ inRun(i - 1) THEN "" ELSE " "]
    IN  SelectSeq(replaced, LAMBDA c : c # "")

\* replace(/[\u200B-\u200D\uFEFF]/g, ''): zero-width characters are deleted
StripZeroWidth(s) == SelectSeq(s, LAMBDA c : c \notin ZeroWidthClass)

-----------------------------------------------------------------------------
(* Text normaliser                                                         *)

\* A plausible slip: the lower-case fold is left out.
normalizeText_NoFold(text) ==
    Trim(StripZeroWidth(CollapseWhiteSpace(text)))

normalizeText(text) ==
    IF Len(text) = 0 THEN <<>>
    ELSE Trim(StripZeroWidth(CollapseWhiteSpace(toLowerCase(text))))

-----------------------------------------------------------------------------
(* Document tree                                                           *)
(*                                                                         *)
(* A node is a record: a text node (kind "T") carries its data, an element *)
(* (kind "E") its tagName, id, className and child nodes.  uid stands for  *)
(* the object identity of an element.  The tree is rooted at document.body *)
(* when the head of the document holds nothing the program can reach, and  *)
(* at the HTML element, with the children HEAD and BODY, when it does.  A  *)
(* node is addressed by its path, the child positions from the root down.  *)

TextNode(str) ==
    [kind |-> "T", uid |-> 0, tag |-> "#text", id |-> "", cls |-> "",
     data |-> str, kids |-> <<>>]

Element(u, t, i, c, ks) ==
    [kind |-> "E", uid |-> u, tag |-> t, id |-> i, cls |-> c,
     data |-> <<>>, kids |-> ks]

\* The path no node has: the null of the code.
NullPath == <<0>>

RECURSIVE NodeAt(_, _)
NodeAt(node, path) ==
    IF path = <<>> THEN node ELSE NodeAt(node.kids[Head(path)], Tail(path))

RECURSIVE HasPath(_, _)
HasPath(node, path) ==
    \/ path = <<>>
    \/ /\ Head(path) \in 1..Len(node.kids)
       /\ HasPath(node.kids[Head(path)], Tail(path))

ParentPath(path) == SubSeq(path, 1, Len(path) - 1)

\* document.body
BodyPath(doc) == IF doc.tag = "HTML" THEN <<2>> ELSE <<>>

\* ancestor.contains(node)
Contains(ancestorPath, path) ==
    /\ Len(ancestorPath) <= Len(path)
    /\ SubSeq(path, 1, Len(ancestorPath)) = ancestorPath

\* Node.textContent: the data of the descendant text nodes, in document order.
RECURSIVE textContent(_)
textContent(node) ==
    IF node.kind = "T" THEN node.data
    ELSE LET F[i \in 0..Len(node.kids)] ==
                 IF i = 0 THEN <<>> ELSE F[i - 1] \o textContent(node.kids[i])
         IN  F[Len(node.kids)]

\* The paths of the nodes of one kind below (and including) the node at
\* path, in document order (depth first, pre-order): what a TreeWalker
\* rooted there visits.
RECURSIVE WalkPaths(_, _, _)
WalkPaths(node, path, kind) ==
    LET here == IF node.kind = kind THEN <<path>> ELSE <<>>
        F[i \in 0..Len(node.kids)] ==
            IF i = 0 THEN <<>>
            ELSE F[i - 1] \o WalkPaths(node.kids[i], Append(path, i), kind)
    IN  here \o F[Len(node.kids)]

\* document.createTreeWalker(root, NodeFilter.SHOW_TEXT): the walker starts
\* after its root, so a root that is itself a text node yields nothing else.
TextWalker(doc, rootPath) == WalkPaths(NodeAt(doc, rootPath), rootPath, "T")

ElementPaths(doc) == WalkPaths(doc, <<>>, "E")

\* The tree with the child at path replaced by the nodes of seq.
RECURSIVE SpliceAt(_, _, _)
SpliceAt(node, path, seq) ==
    LET i == Head(path)
    IN  IF Len(path) = 1
        THEN [node EXCEPT !.kids =
                 SubSeq(node.kids, 1, i - 1) \o seq
                     \o SubSeq(node.kids, i + 1, Len(node.kids))]
        ELSE [node EXCEPT !.kids[i] = SpliceAt(node.kids[i], Tail(path), seq)]

\* The tree with the node at path replaced by one node.
ReplaceAt(node, path, new) ==
    IF path = <<>> THEN new ELSE SpliceAt(node, path, <<new>>)

\* Document order of two paths: an ancestor precedes its descendants.
RECURSIVE Precedes(_, _)
Precedes(p, q) ==
    IF p = <<>> THEN q # <<>>
    ELSE IF q = <<>> THEN FALSE
    ELSE IF Head(p) # Head(q) THEN Head(p) < Head(q)
    ELSE Precedes(Tail(p), Tail(q))

FirstInDocumentOrder(paths) ==
    IF paths = {} THEN NullPath
    ELSE CHOOSE p \in paths : \A q \in paths : q = p \/ Precedes(p, q)

PathOfUid(doc, u) ==
    LET ps == ElementPaths(doc)
        hits == {i \in 1..Len(ps) : NodeAt(doc, ps[i]).uid = u}
    IN  IF hits = {} THEN NullPath ELSE ps[CHOOSE i \in hits : TRUE]

-----------------------------------------------------------------------------
(* Structural address codec                                                *)
(*                                                                         *)
(* An address is the XPath expression as the sequence of its steps:        *)
(*   [axis |-> "id", name |-> i]        //*[@id="i"]                    *)
(*   [axis |-> "body"]                  /html/body                         *)
(*   [axis |-> "child", name, index]    /name[index]                       *)
(* The empty sequence is the null address.                                 *)

IdStep(i) == [axis |-> "id", name |-> Chars(i), index |-> 0]
BodyStep == [axis |-> "body", name |-> Chars("body"), index |-> 0]
ChildStep(n, k) == [axis |-> "child", name |-> n, index |-> k]

\* element.parentNode.children: the element children of a node, as positions
\* in its child list.
ElementChildren(node) ==
    {k \in 1..Len(node.kids) : node.kids[k].kind = "E"}

\* The index getXPath gives child k of parent: 1 plus the number of element
\* children before it that carry its tagName.
SiblingIndex_AllSiblings(parent, k) ==
    1 + Cardinality({j \in ElementChildren(parent) : j < k})

SiblingIndex(parent, k) ==
    1 + Cardinality({j \in ElementChildren(parent) :
                        j < k /\ parent.kids[j].tag = parent.kids[k].tag})

\* The position of child j of parent in the node set of the XPath step
\* name[...]: among the element children whose name the step's test matches.
XPathPosition(parent, j, name) ==
    1 + Cardinality({m \in ElementChildren(parent) :
                        m < j /\ toLowerCase(Chars(parent.kids[m].tag)) = name})

RECURSIVE getXPathOfElement(_, _)
getXPathOfElement(doc, path) ==
    LET element == NodeAt(doc, path)
    IN  IF element.id # "" THEN <<IdStep(element.id)>>
        ELSE IF path = BodyPath(doc) THEN <<BodyStep>>
        \* the parent of the HTML element is the document, not an element
        ELSE IF path = <<>> THEN <<>>
        ELSE LET parentPath == getXPathOfElement(doc, ParentPath(path))
                 parent == NodeAt(doc, ParentPath(path))
             IN  IF parentPath = <<>> THEN <<>>
                 ELSE Append(parentPath,
                          ChildStep(toLowerCase(Chars(element.tag)),
                                    SiblingIndex(parent, path[Len(path)])))

\* getXPath(node): a text node is addressed by its parent element.
getXPath(doc, path) ==
    IF NodeAt(doc, path).kind = "T"
    THEN IF path = <<>> THEN <<>> ELSE getXPathOfElement(doc, ParentPath(path))
    ELSE getXPathOfElement(doc, path)

\* One location step of document.evaluate, from a set of context nodes to
\* the set of nodes it selects.
XPathStep(doc, context, step) ==
    IF step.axis = "body" THEN {BodyPath(doc)}
    ELSE IF step.axis = "id"
    THEN LET ps == ElementPaths(doc)
         IN  {ps[i] : i \in {j \in 1..Len(ps) :
                                 Chars(NodeAt(doc, ps[j]).id) = step.name}}
    ELSE UNION {
           LET parent == NodeAt(doc, p)
           IN  {Append(p, k) : k \in {j \in ElementChildren(parent) :
                   /\ toLowerCase(Chars(parent.kids[j].tag)) = step.name
                   /\ XPathPosition(parent, j, step.name) = step.index}}
           : p \in context}

\* An id holding a double quote ends the string literal of the expression
\* early; document.evaluate throws a syntax error and the catch returns null.
XPathWellFormed(xpath) ==
    \A i \in 1..Len(xpath) :
        xpath[i].axis = "id" => ~ Includes(xpath[i].name, <<"\"">>)

\* getElementByXPath answering with the body where no node is selected.
getElementByXPath_BodyDefault(doc, xpath) == BodyPath(doc)

\* getElementByXPath(xpath): the first node, in document order, of the node
\* set the expression selects; null when it selects none or does not parse.
getElementByXPath(doc, xpath) ==
    LET F[i \in 0..Len(xpath)] ==
            IF i = 0 THEN {}
            ELSE XPathStep(doc, F[i - 1], xpath[i])
    IN  IF xpath = <<>> \/ ~ XPathWellFormed(xpath) THEN NullPath
        ELSE FirstInDocumentOrder(F[Len(xpath)])

-----------------------------------------------------------------------------
(* Ranges and highlight marks                                              *)

\* The last where the first is meant.
MinOf_Largest(S) == CHOOSE x \in S : \A y \in S : x >= y

MinOf(S) == CHOOSE x \in S : \A y \in S : x <= y

\* The uid of the n-th <mark> element createHighlightMark made.
MarkUid(n) == 100 + n
createHighlightMark(n, ks) ==
    Element(MarkUid(n), "MARK", "", "smart-clipboard-highlight", ks)

\* range.setStart / range.setEnd raise IndexSizeError for an offset beyond
\* the node's length.
RangeThrows(node, start, end) ==
    start < 0 \/ end < 0 \/ start > Len(node.data) \/ end > Len(node.data)

\* range.surroundContents(mark) for a range start..end inside the text node
\* at path: the node keeps the text before the range, the mark receives the
\* text of the range, and a new text node after the mark receives the rest
\* (the DOM splits the node even when a part is empty).
surroundContents(doc, path, start, end, n) ==
    LET data == NodeAt(doc, path).data
    IN  SpliceAt(doc, path,
            << TextNode(SubSeq(data, 1, start)),
               createHighlightMark(n,
                   IF start < end THEN <<TextNode(SubSeq(data, start + 1, end))>>
                   ELSE <<>>),
               TextNode(SubSeq(data, end + 1, Len(data))) >>)

\* range.selectNodeContents(node); range.surroundContents(mark)
surroundNodeContents(doc, path, n) ==
    surroundContents(doc, path, 0, Len(NodeAt(doc, path).data), n)

\* What a strategy returns, with the document it leaves and the number of
\* marks it inserted into it.
Declined(doc) == [ok |-> FALSE, doc |-> doc, made |-> 0]
Highlighted(doc) == [ok |-> TRUE, doc |-> doc, made |-> 1]

\* document.createTreeWalker(document.body, NodeFilter.SHOW_TEXT)
TextNodes(doc) == TextWalker(doc, BodyPath(doc))
DataAt(doc, path) == NodeAt(doc, path).data

-----------------------------------------------------------------------------
(* Strategy 1: XPath + offset                                              *)

\* offset of an anchor that carries none (undefined)
Undefined == 0 - 1

findTextNode(doc, elementPath, offset) ==
    LET nodes == TextWalker(doc, elementPath)
        before(i) ==
            LET F[k \in 0..Len(nodes)] ==
                    IF k = 0 THEN 0 ELSE F[k - 1] + Len(DataAt(doc, nodes[k]))
            IN  F[i - 1]
        hits == {i \in 1..Len(nodes) :
                    before(i) + Len(DataAt(doc, nodes[i])) >= offset}
        element == NodeAt(doc, elementPath)
    IN  IF hits # {} THEN nodes[MinOf(hits)]
        ELSE IF Len(element.kids) > 0 /\ element.kids[1].kind = "T"
        THEN Append(elementPath, 1)
        ELSE NullPath

\* The prefix check of strategy 1: TRUE when the text found is rejected.
PrefixMismatch(foundText, originalText) ==
    /\ Len(originalText) > 0
    /\ LET normalizedFound == normalizeText(foundText)
           normalizedOriginal == normalizeText(originalText)
           minMatchLength == Min2(Min2(Len(normalizedFound),
                                       Len(normalizedOriginal)), 30)
       IN  /\ minMatchLength >= 5
           /\ Substring(normalizedFound, 0, minMatchLength)
                # Substring(normalizedOriginal, 0, minMatchLength)

tryXPathHighlight(doc, selectionInfo, n) ==
    LET element == getElementByXPath(doc, selectionInfo.xpath)
    IN  IF element = NullPath \/ selectionInfo.offset = Undefined
        THEN Declined(doc)
        ELSE
        LET textNode == findTextNode(doc, element, selectionInfo.offset)
        IN  IF textNode = NullPath THEN Declined(doc)
            ELSE
            LET data == DataAt(doc, textNode)
                actualOffset == Min2(selectionInfo.offset, Len(data))
                endOffset == Min2(actualOffset + selectionInfo.length, Len(data))
                foundText == Substring(data, actualOffset, endOffset)
                wrapped == surroundContents(doc, textNode, actualOffset, endOffset, n)
                markPath == PathOfUid(wrapped, MarkUid(n))
            IN  IF actualOffset >= endOffset \/ endOffset > Len(data)
                THEN Declined(doc)
                ELSE IF Len(Trim(foundText)) = 0 THEN Declined(doc)
                ELSE IF PrefixMismatch(foundText, selectionInfo.originalText)
                THEN Declined(doc)
                \* !mark.parentNode || !document.body.contains(mark)
                ELSE IF markPath = NullPath \/ ~ Contains(BodyPath(doc), markPath)
                THEN [ok |-> FALSE, doc |-> wrapped, made |-> 1]
                ELSE IF Len(Trim(textContent(NodeAt(wrapped, markPath)))) = 0
                \* mark.parentNode.removeChild(mark)
                THEN [ok |-> FALSE, made |-> 1,
                      doc |-> SpliceAt(wrapped, markPath, <<>>)]
                ELSE Highlighted(wrapped)

-----------------------------------------------------------------------------
(* Multi-match scorer and strategy 2: scored exact match                   *)

\* The raw index findActualIndex computes for a normalised index: it walks
\* the raw text and counts the characters whose own normal form is not
\* empty, until the count reaches the normalised index.
findActualIndex(original, normalizedSearch, normalizedIndex) ==
    LET counted(i) ==
            Cardinality({k \in 1..i : Len(normalizeText(<<original[k]>>)) > 0})
        stops == {i \in 0..Len(original) : counted(i) >= normalizedIndex}
        i == IF stops = {} THEN Len(original) ELSE MinOf(stops)
    IN  IF i < Len(original) THEN i ELSE 0 - 1

\* calculateContextScore without the points for the text before and the text
\* after the match.
calculateContextScore_NoFingerprint(doc, path, matchIndex, selectionInfo) ==
    LET parent == NodeAt(doc, ParentPath(path))
    IN  IF selectionInfo.parentTagName = "" THEN 10
        ELSE 10 + (IF parent.tag = selectionInfo.parentTagName THEN 12 ELSE 0)
                + (IF selectionInfo.parentClassName # ""
                      /\ Includes(Chars(parent.cls),
                                  Chars(selectionInfo.parentClassName))
                   THEN 8 ELSE 0)

\* The scorer with 45 points for an exact fingerprint.
calculateContextScore_Exact45(doc, path, matchIndex, selectionInfo) ==
    LET nodeText == DataAt(doc, path)
        beforeScore ==
            IF Len(selectionInfo.textBefore) = 0 THEN 0
            ELSE LET normalizedBefore ==
                         normalizeText(Substring(nodeText, 0, matchIndex))
                     normalizedExpected == normalizeText(selectionInfo.textBefore)
                 IN  IF EndsWith(normalizedBefore, normalizedExpected) THEN 45
                     ELSE IF Len(normalizedExpected) >= 10
                             /\ Includes(normalizedBefore,
                                    Slice(normalizedExpected, 0 - 20,
                                          Len(normalizedExpected)))
                     THEN 20 ELSE 0
        afterScore ==
            IF Len(selectionInfo.textAfter) = 0 THEN 0
            ELSE LET normalizedAfter ==
                         normalizeText(SubstringFrom(nodeText,
                             matchIndex + selectionInfo.length))
                     normalizedExpected == normalizeText(selectionInfo.textAfter)
                 IN  IF StartsWith(normalizedAfter, normalizedExpected) THEN 45
                     ELSE IF Len(normalizedExpected) >= 10
                             /\ Includes(normalizedAfter,
                                    Slice(normalizedExpected, 0, 20))
                     THEN 20 ELSE 0
        parent == NodeAt(doc, ParentPath(path))
        parentScore ==
            IF selectionInfo.parentTagName = "" THEN 0
            ELSE (IF parent.tag = selectionInfo.parentTagName THEN 12 ELSE 0)
               + (IF selectionInfo.parentClassName # ""
                     /\ Includes(Chars(parent.cls),
                                 Chars(selectionInfo.parentClassName))
                  THEN 8 ELSE 0)
    IN  beforeScore + afterScore + parentScore + 10

calculateContextScore(doc, path, matchIndex, selectionInfo) ==
    LET nodeText == DataAt(doc, path)
        beforeScore ==
            IF Len(selectionInfo.textBefore) = 0 THEN 0
            ELSE LET normalizedBefore ==
                         normalizeText(Substring(nodeText, 0, matchIndex))
                     normalizedExpected == normalizeText(selectionInfo.textBefore)
                 IN  IF EndsWith(normalizedBefore, normalizedExpected) THEN 35
                     ELSE IF Len(normalizedExpected) >= 10
                             /\ Includes(normalizedBefore,
                                    Slice(normalizedExpected, 0 - 20,
                                          Len(normalizedExpected)))
                     THEN 20 ELSE 0
        afterScore ==
            IF Len(selectionInfo.textAfter) = 0 THEN 0
            ELSE LET normalizedAfter ==
                         normalizeText(SubstringFrom(nodeText,
                             matchIndex + selectionInfo.length))
                     normalizedExpected == normalizeText(selectionInfo.textAfter)
                 IN  IF StartsWith(normalizedAfter, normalizedExpected) THEN 35
                     ELSE IF Len(normalizedExpected) >= 10
                             /\ Includes(normalizedAfter,
                                    Slice(normalizedExpected, 0, 20))
                     THEN 20 ELSE 0
        parent == NodeAt(doc, ParentPath(path))
        parentScore ==
            IF selectionInfo.parentTagName = "" THEN 0
            ELSE (IF parent.tag = selectionInfo.parentTagName THEN 12 ELSE 0)
               + (IF selectionInfo.parentClassName # ""
                     /\ Includes(Chars(parent.cls),
                                 Chars(selectionInfo.parentClassName))
                  THEN 8 ELSE 0)
    IN  beforeScore + afterScore + parentScore + 10

\* A sort by score that puts the later of two equal candidates first.
SortByScore_Unstable(matches) ==
    LET rank(i) ==
            1 + Cardinality({j \in 1..Len(matches) :
                    \/ matches[j].score > matches[i].score
                    \/ matches[j].score = matches[i].score /\ j > i})
    IN  [r \in 1..Len(matches) |->
            matches[CHOOSE i \in 1..Len(matches) : rank(i) = r]]

\* Array.prototype.sort((a, b) => b.score - a.score): descending by score,
\* stable.
SortByScore(matches) ==
    LET rank(i) ==
            1 + Cardinality({j \in 1..Len(matches) :
                    \/ matches[j].score > matches[i].score
                    \/ matches[j].score = matches[i].score /\ j < i})
    IN  [r \in 1..Len(matches) |->
            matches[CHOOSE i \in 1..Len(matches) : rank(i) = r]]

\* Every occurrence of the normalised search text in one text node, in the
\* order the inner loop finds them.
MatchesInNode(doc, path, normalizedSearch, selectionInfo) ==
    LET raw == DataAt(doc, path)
        normalizedNode == normalizeText(raw)
        found == {p \in 0..Len(normalizedNode) :
                     /\ MatchesAt(normalizedNode, normalizedSearch, p)
                     /\ findActualIndex(raw, normalizedSearch, p) # 0 - 1}
        nth(k) == CHOOSE p \in found : Cardinality({q \in found : q < p}) = k - 1
    IN  [k \in 1..Cardinality(found) |->
            LET actualIndex == findActualIndex(raw, normalizedSearch, nth(k))
            IN  [path |-> path, index |-> actualIndex,
                 score |-> calculateContextScore(doc, path, actualIndex,
                                                 selectionInfo),
                 normalizedIndex |-> nth(k)]]

findAllMatchesWithScoring(doc, searchText, selectionInfo) ==
    LET normalizedSearch == normalizeText(searchText)
        nodes == TextNodes(doc)
        F[i \in 0..Len(nodes)] ==
            IF i = 0 THEN <<>>
            ELSE F[i - 1] \o MatchesInNode(doc, nodes[i], normalizedSearch,
                                           selectionInfo)
    IN  IF Len(normalizedSearch) < 3 THEN <<>>
        ELSE SortByScore(F[Len(nodes)])

\* The score a candidate must reach: 40 for a short search text, 20 otherwise.
\* One threshold for short and long texts.
minScoreFor_Flat20(normalizedSearch) == 20

minScoreFor(normalizedSearch) ==
    IF Len(normalizedSearch) < 15 THEN 40 ELSE 20

\* range over match m for the length of the original text, wrapped in a mark
MatchRangeThrows(doc, m, originalText) ==
    RangeThrows(NodeAt(doc, m.path), m.index,
                Min2(m.index + Len(originalText), Len(DataAt(doc, m.path))))

wrapMatch(doc, m, originalText, n) ==
    surroundContents(doc, m.path, m.index,
        Min2(m.index + Len(originalText), Len(DataAt(doc, m.path))), n)

highlightByExactMatchWithScoring(doc, originalText, selectionInfo, n) ==
    LET normalizedSearch == normalizeText(originalText)
        matches == findAllMatchesWithScoring(doc, originalText, selectionInfo)
        minScore == minScoreFor(normalizedSearch)
    IN  IF Len(normalizedSearch) < 5 THEN Declined(doc)
        ELSE IF Len(matches) = 0 THEN Declined(doc)
        ELSE IF matches[1].score < minScore THEN Declined(doc)
        ELSE IF ~ MatchRangeThrows(doc, matches[1], originalText)
        THEN Highlighted(wrapMatch(doc, matches[1], originalText, n))
        ELSE IF Len(matches) > 1 /\ matches[2].score >= minScore
                /\ ~ MatchRangeThrows(doc, matches[2], originalText)
        THEN Highlighted(wrapMatch(doc, matches[2], originalText, n))
        ELSE Declined(doc)

-----------------------------------------------------------------------------
(* Strategy 3: first-line anchor                                           *)

\* text.split('\n')
SplitLines(text) ==
    LET breaks == {i \in 1..Len(text) : text[i] = "\n"}
        nth(k) == CHOOSE i \in breaks : Cardinality({j \in breaks : j < i}) = k - 1
        from(k) == IF k = 1 THEN 1 ELSE nth(k - 1) + 1
        to(k) == IF k = Cardinality(breaks) + 1 THEN Len(text) ELSE nth(k) - 1
    IN  [k \in 1..(Cardinality(breaks) + 1) |-> SubSeq(text, from(k), to(k))]

\* lines.filter(line => line.trim().length > 0)
NonBlankLines(text) == SelectSeq(SplitLines(text), LAMBDA l : Len(Trim(l)) > 0)

\* The first text node, in document order, in which tryPrefixMatch finds the
\* search text at a raw index findActualIndex can give; 0 when there is none.
PrefixMatchNode(doc, searchText) ==
    LET nodes == TextNodes(doc)
        hits == {i \in 1..Len(nodes) :
                   LET raw == DataAt(doc, nodes[i])
                       index == IndexOf(normalizeText(raw), searchText)
                   IN  /\ index # 0 - 1
                       /\ findActualIndex(raw, searchText, index) # 0 - 1}
    IN  IF hits = {} THEN 0 ELSE MinOf(hits)

tryPrefixMatch(doc, searchText, highlightLength, n) ==
    LET nodes == TextNodes(doc)
        i == PrefixMatchNode(doc, searchText)
    IN  IF i = 0 THEN Declined(doc)
        ELSE LET raw == DataAt(doc, nodes[i])
                 actualIndex == findActualIndex(raw, searchText,
                                    IndexOf(normalizeText(raw), searchText))
                 end == Min2(actualIndex + highlightLength, Len(raw))
             IN  IF RangeThrows(NodeAt(doc, nodes[i]), actualIndex, end)
                 THEN Highlighted(surroundNodeContents(doc, nodes[i], n))
                 ELSE Highlighted(surroundContents(doc, nodes[i],
                                                   actualIndex, end, n))

prefixLengths == <<20, 10, 5>>

\* The tiers of prefixLengths the loop of highlightByFirstLine searches for a
\* first line: not longer than the line, normalising to 3 characters or more.
TierApplies(firstLine, prefixLen) ==
    /\ Len(firstLine) >= prefixLen
    /\ Len(normalizeText(Substring(firstLine, 0, prefixLen))) >= 3

\* The position in prefixLengths of the tier at which highlightByFirstLine
\* succeeds, 0 when it declines.  The tiers are tried in the order of
\* prefixLengths; the first whose tryPrefixMatch succeeds ends the loop.
FirstLineTier(doc, firstLine) ==
    LET hits == {t \in 1..Len(prefixLengths) :
                   /\ TierApplies(firstLine, prefixLengths[t])
                   /\ PrefixMatchNode(doc,
                          normalizeText(Substring(firstLine, 0,
                                                  prefixLengths[t]))) # 0}
    IN  IF hits = {} THEN 0 ELSE MinOf(hits)

firstLineOf(originalText) ==
    LET lines == NonBlankLines(originalText)
    IN  IF Len(lines) = 0 THEN <<>> ELSE Trim(lines[1])

highlightByFirstLine(doc, originalText, n) ==
    LET lines == NonBlankLines(originalText)
        firstLine == firstLineOf(originalText)
        t == FirstLineTier(doc, firstLine)
    IN  IF Len(lines) = 0 \/ t = 0 THEN Declined(doc)
        ELSE tryPrefixMatch(doc,
                 normalizeText(Substring(firstLine, 0, prefixLengths[t])),
                 Len(firstLine), n)

-----------------------------------------------------------------------------
(* Strategy 4: windowed aggregated search                                  *)

WINDOW_SIZE == 15

\* The text nodes that are not white space only, in document order.
NonBlankTextNodes(doc) ==
    SelectSeq(TextNodes(doc), LAMBDA q : Len(Trim(DataAt(doc, q))) > 0)

\* allNodes[i] .. allNodes[i + WINDOW_SIZE - 1], each followed by a space
\* (i is the 0-based window start of the code).
WindowText(doc, allNodes, i) ==
    LET windowEnd == Min2(i + WINDOW_SIZE, Len(allNodes))
        F[j \in i..windowEnd] ==
            IF j = i THEN <<>>
            ELSE F[j - 1] \o DataAt(doc, allNodes[j]) \o <<" ">>
    IN  F[windowEnd]

highlightByWindowedSearch(doc, originalText, n) ==
    LET searchText == normalizeText(Substring(originalText, 0, 20))
        allNodes == NonBlankTextNodes(doc)
        hits == {i \in 0..(Len(allNodes) - 1) :
                    Includes(normalizeText(WindowText(doc, allNodes, i)),
                             searchText)}
    IN  IF Len(searchText) < 10 THEN Declined(doc)
        ELSE IF Len(allNodes) = 0 \/ hits = {} THEN Declined(doc)
        ELSE Highlighted(surroundNodeContents(doc, allNodes[MinOf(hits) + 1], n))

-----------------------------------------------------------------------------
(* Strategy 5: fuzzy similarity match                                      *)

\* calculateSimilarity as the fraction num / den.
calculateSimilarity(str1, str2) ==
    LET shorter == IF Len(str1) < Len(str2) THEN str1 ELSE str2
        longer == IF Len(str1) >= Len(str2) THEN str1 ELSE str2
        windowSize == Min2(Len(shorter), 30)
        matchesAt(i) ==
            Cardinality({j \in 1..windowSize : longer[i + j] = shorter[j]})
        counts == {matchesAt(i) : i \in 0..(Len(longer) - windowSize)}
    IN  IF Includes(longer, shorter) THEN [num |-> 1, den |-> 1]
        ELSE [num |-> CHOOSE m \in counts : \A k \in counts : k <= m,
              den |-> windowSize]

FractionGreater(a, b) == a.num * b.den > b.num * a.den

\* The snippet strategy 5 searches for: 40 characters from 20% into the text.
fuzzySnippet(originalText) ==
    LET searchStart == (Len(originalText) * 2) \div 10
        searchEnd == Min2(searchStart + 40, Len(originalText))
    IN  normalizeText(Substring(originalText, searchStart, searchEnd))

\* The loop keeps the last of the nodes with the best score.
FuzzyBestNode_Last(doc, searchSnippet) ==
    LET nodes == TextNodes(doc)
        score(i) == calculateSimilarity(normalizeText(DataAt(doc, nodes[i])),
                                        searchSnippet)
        eligible == {i \in 1..Len(nodes) :
                       /\ Len(normalizeText(DataAt(doc, nodes[i])))
                            >= Len(searchSnippet)
                       /\ FractionGreater(score(i), [num |-> 7, den |-> 10])}
        best == {i \in eligible :
                    \A j \in eligible : ~ FractionGreater(score(j), score(i))}
    IN  IF best = {} THEN 0 ELSE CHOOSE i \in best : \A j \in best : j <= i

\* The node the loop of highlightByFuzzyMatch ends with (0: none): the first
\* node whose score exceeds 0.7 and is exceeded by no node's.
FuzzyBestNode(doc, searchSnippet) ==
    LET nodes == TextNodes(doc)
        score(i) == calculateSimilarity(normalizeText(DataAt(doc, nodes[i])),
                                        searchSnippet)
        eligible == {i \in 1..Len(nodes) :
                       /\ Len(normalizeText(DataAt(doc, nodes[i])))
                            >= Len(searchSnippet)
                       /\ FractionGreater(score(i), [num |-> 7, den |-> 10])}
        best == {i \in eligible :
                    /\ \A j \in eligible : ~ FractionGreater(score(j), score(i))
                    /\ \A j \in eligible :
                          j < i => FractionGreater(score(i), score(j))}
    IN  IF best = {} THEN 0 ELSE MinOf(best)

highlightByFuzzyMatch(doc, originalText, n) ==
    LET searchSnippet == fuzzySnippet(originalText)
        bestMatch == FuzzyBestNode(doc, searchSnippet)
    IN  IF Len(searchSnippet) < 15 THEN Declined(doc)
        ELSE IF bestMatch = 0 THEN Declined(doc)
        ELSE Highlighted(surroundNodeContents(doc, TextNodes(doc)[bestMatch], n))

-----------------------------------------------------------------------------
(* Strategies 6 and 7: surrounding text, partial match                     *)

\* The first text node whose normal form contains the snippet (0: none).
FirstNodeContaining(doc, snippet) ==
    LET nodes == TextNodes(doc)
        hits == {i \in 1..Len(nodes) :
                    Includes(normalizeText(DataAt(doc, nodes[i])), snippet)}
    IN  IF hits = {} THEN 0 ELSE MinOf(hits)

highlightByTextSearch(doc, searchText, n) ==
    LET searchSnippet == normalizeText(Substring(searchText, 0, 60))
        i == FirstNodeContaining(doc, searchSnippet)
    IN  IF Len(searchText) < 10 THEN Declined(doc)
        ELSE IF i = 0 THEN Declined(doc)
        ELSE Highlighted(surroundNodeContents(doc, TextNodes(doc)[i], n))

\* The end of the text is tried before its start.
portions_EndFirst(originalText) ==
    LET len == Len(originalText)
    IN  << SubstringFrom(originalText, len - 20),
           Substring(originalText, 0, 20),
           Substring(originalText, (len \div 2) - 10, (len \div 2) + 10) >>

\* The start, the end and the middle of the text, 20 characters each.
portions(originalText) ==
    LET len == Len(originalText)
    IN  << Substring(originalText, 0, 20),
           SubstringFrom(originalText, len - 20),
           Substring(originalText, (len \div 2) - 10, (len \div 2) + 10) >>

highlightByPartialMatch(doc, originalText, n) ==
    LET ps == portions(originalText)
        hits == {k \in 1..Len(ps) :
                    /\ Len(normalizeText(ps[k])) >= 8
                    /\ FirstNodeContaining(doc, normalizeText(ps[k])) # 0}
    IN  IF hits = {} THEN Declined(doc)
        ELSE Highlighted(surroundNodeContents(doc,
                 TextNodes(doc)[FirstNodeContaining(doc,
                                    normalizeText(ps[MinOf(hits)]))], n))

-----------------------------------------------------------------------------
(* Highlight lifecycle: Node.normalize and the unwrap of a mark            *)

\* Node.normalize(): below the node, empty text nodes are removed and
\* adjacent text nodes merged.
RECURSIVE normalizeNode(_)
normalizeNode(node) ==
    IF node.kind = "T" THEN node
    ELSE LET F[i \in 0..Len(node.kids)] ==
                 IF i = 0 THEN <<>>
                 ELSE LET kid == node.kids[i]
                          sofar == F[i - 1]
                      IN  IF kid.kind = "E" THEN Append(sofar, normalizeNode(kid))
                          ELSE IF Len(kid.data) = 0 THEN sofar
                          ELSE IF Len(sofar) > 0 /\ sofar[Len(sofar)].kind = "T"
                          THEN [sofar EXCEPT ![Len(sofar)].data = @ \o kid.data]
                          ELSE Append(sofar, kid)
         IN  [node EXCEPT !.kids = F[Len(node.kids)]]

\* parent.replaceChild(document.createTextNode(mark.textContent), mark);
\* parent.normalize().  A mark that left the document with an enclosing mark
\* still has a parent, outside the document: the document stays as it is.
unwrapMark(d, n) ==
    LET markPath == PathOfUid(d, MarkUid(n))
        parentPath == ParentPath(markPath)
        replaced == SpliceAt(d, markPath,
                        <<TextNode(textContent(NodeAt(d, markPath)))>>)
    IN  IF markPath = NullPath THEN d
        ELSE ReplaceAt(replaced, parentPath,
                       normalizeNode(NodeAt(replaced, parentPath)))

-----------------------------------------------------------------------------
(* Pages and stored anchors the cascade is run on                          *)

\* The selectionInfo of a HIGHLIGHT_TEXT message: the stored anchor with the
\* item's text as originalText.
Info(xp, off, len, surr, before, after, ptag, pcls, original) ==
    [xpath |-> xp, offset |-> off, length |-> len, surroundingText |-> Chars(surr),
     textBefore |-> Chars(before), textAfter |-> Chars(after),
     parentTagName |-> ptag, parentClassName |-> pcls,
     originalText |-> Chars(original)]

NoInfo == Info(<<>>, Undefined, 0, "", "", "", "", "", "")

P(u, c, str) == Element(u, "P", "", c, <<TextNode(Chars(str))>>)
SPAN(u, str) == Element(u, "SPAN", "", "", <<TextNode(Chars(str))>>)

\* An article: a heading and two paragraphs, the order line in two places.
ArticlePage ==
    Element(1, "BODY", "", "", <<
        Element(2, "DIV", "main", "content", <<
            Element(3, "H2", "", "", <<TextNode(Chars("order #12345 confirmed"))>>),
            P(4, "intro", "The quick brown fox"),
            P(5, "note", "your recent order #12345 confirmed") >>) >>)

\* A page whose second paragraph spreads its sentence over inline elements.
InlinePage ==
    Element(1, "BODY", "", "", <<
        P(2, "", "hello there"),
        Element(3, "P", "", "", <<
            SPAN(4, "one"), TextNode(Chars(" ")), SPAN(5, "two"),
            TextNode(Chars(" ")), SPAN(6, "three"), TextNode(Chars(" ")),
            SPAN(7, "four") >>) >>)

\* A page with spaced-out text, and an element holding several text nodes.
SpacedPage ==
    Element(1, "BODY", "", "", <<
        P(2, "", "x y z!"),
        P(3, "", "a b c d e f g h x y z x y z"),
        Element(4, "DIV", "", "", <<
            TextNode(Chars("Hello ")),
            Element(5, "B", "", "", <<TextNode(Chars("big"))>>),
            TextNode(Chars(" world")) >>) >>)

\* A page whose head holds an element with the id of a paragraph of the
\* body, and whose body holds indented text.
HeadPage ==
    Element(1, "HTML", "", "", <<
        Element(2, "HEAD", "", "", <<
            Element(3, "STYLE", "note", "", <<TextNode(Chars("p{color:red}"))>>) >>),
        Element(4, "BODY", "", "", <<
            Element(5, "P", "note", "lead", <<TextNode(Chars("The quick brown fox"))>>),
            Element(6, "PRE", "", "", <<TextNode(Chars("      moved on"))>>) >>) >>)

\* A page that holds the order line three times, twice in one paragraph.
TwinPage ==
    Element(1, "BODY", "", "", <<
        P(2, "", "order #12345 confirmed"),
        P(3, "twin", "order #12345 confirmed; order #12345 confirmed") >>)

\* A page of short paragraphs: three that resemble each other, and three that
\* hold the end, the beginning or the middle of longer texts.
FuzzyPage ==
    Element(1, "BODY", "", "", <<
        P(2, "", "quick brown fox"),
        P(3, "", "quick brown fax jumps"),
        P(4, "", "quick brown fox jumqs"),
        P(5, "", "the end of the tale"),
        P(6, "", "xx ab cdefgh yy"),
        P(7, "", "the end of the tale, again") >>)

Pages == <<ArticlePage, InlinePage, SpacedPage, HeadPage, TwinPage, FuzzyPage>>

IntroAddress == <<IdStep("main"), ChildStep(Chars("p"), 1)>>
StaleAddress == <<BodyStep, ChildStep(Chars("section"), 1)>>
DivAddress == <<BodyStep, ChildStep(Chars("div"), 1)>>

\* "quick" copied from the intro paragraph, its structure intact.
QuickAnchor ==
    Info(IntroAddress, 4, 5, "The quick brown fox", "The ", " brown fox",
         "P", "intro", "quick")
\* The order line copied from the note paragraph; the address went stale.
OrderAnchor ==
    Info(StaleAddress, 12, 22, "your recent order #12345 confirmed",
         "your recent ", "", "P", "note", "order #12345 confirmed")
\* The same, with no context stored.
OrderBare == Info(<<>>, Undefined, 22, "", "", "", "", "", "order #12345 confirmed")
\* Twelve characters of which the page holds only the first five.
HelloAnchor == Info(<<>>, Undefined, 12, "", "", "", "", "", "hello world!")
\* A sentence that spans the inline elements.
SpanningAnchor ==
    Info(<<>>, Undefined, 18, "", "", "", "", "", "one two three four")
\* A text that differs from the page in its first characters.
NearAnchor == Info(<<>>, Undefined, 20, "", "", "", "", "", "Zed, quick brown fox")
\* A short text that is gone, its surroundings still there.
GoneAnchor ==
    Info(<<>>, Undefined, 4, "The quick brown fox", "", "", "", "", "gone")
\* A long text of which only the end is still on the page.
TailAnchor ==
    Info(<<>>, Undefined, 45, "", "", "", "", "",
         "Lorem ipsum dolor sit ameder #12345 confirmed")
\* A text the page has nowhere.
LostAnchor ==
    Info(StaleAddress, 3, 21, "entirely absent context", "", "", "P", "",
         "nowhere to be found!!")
\* A line whose ten-character prefix sits behind spaces in one node and whose
\* five-character prefix opens another.
SpacedAnchor == Info(<<>>, Undefined, 11, "", "", "", "", "", "x y z x y z")
\* "world" copied from the third text node of the DIV.
WorldAnchor == Info(DivAddress, 1, 5, "", "", "", "DIV", "", "world")

\* "The" copied from the paragraph with the id "note".
StyleAnchor ==
    Info(<<IdStep("note")>>, 0, 3, "The quick brown fox", "", " quick brown fox",
         "P", "lead", "The")
\* The same, copied when the paragraph read otherwise.
StyleStale ==
    Info(<<IdStep("note")>>, 0, 3, "The lazy dog jumps", "", " lazy dog jumps",
         "P", "lead", "The")
\* "moved" copied from the indented text; the address went stale.
IndentAnchor ==
    Info(StaleAddress, 6, 5, "      moved on", "      ", " on", "PRE", "", "moved")
\* A short text stored with the tag of its parent as its only context.
ShortAnchor == Info(StaleAddress, 4, 5, "", "", "", "P", "", "quick")
\* Five characters of which three are left once the white space collapses.
BlankAnchor == Info(StaleAddress, 4, 5, "", "", "", "PRE", "", "d   n")

\* "hello there" copied from a paragraph whose id the page no longer has.
UnknownIdAnchor ==
    Info(<<IdStep("gone")>>, 0, 11, "", "", "", "P", "", "hello there")
\* The same, copied from a paragraph whose id held a double quote.
QuotedIdAnchor ==
    Info(<<IdStep("a\"b")>>, 0, 11, "", "", "", "P", "", "hello there")
\* The same, copied from the third paragraph of a body that now has two.
OrdinalAnchor ==
    Info(<<BodyStep, ChildStep(Chars("p"), 3)>>, 0, 11, "", "", "", "P", "",
         "hello there")

\* "world" copied from the DIV, its offset counted in the flattened text of
\* the DIV: "Hello big world".
FlatAnchor ==
    Info(DivAddress, 10, 5, "Hello big world", "Hello big ", "", "DIV", "",
         "world")
\* The order line copied from a paragraph, with the tag of the paragraph as
\* its only context.
TwinAnchor ==
    Info(StaleAddress, 0, 22, "", "", "", "P", "", "order #12345 confirmed")
\* The same, copied from a paragraph of the class "twin".
TwinClassAnchor ==
    Info(StaleAddress, 0, 22, "", "", "", "P", "twin", "order #12345 confirmed")
\* The same, copied from behind the semicolon.
TwinLastAnchor ==
    Info(StaleAddress, 24, 22, "", "confirmed; ", "", "P", "twin",
         "order #12345 confirmed")
\* "slo" copied from the intro paragraph when it read "The slow brown fox".
SlowAnchor ==
    Info(IntroAddress, 4, 3, "The slow brown fox", "The ", "w brown fox",
         "P", "intro", "slo")

\* A text that differs from two paragraphs by one character each, behind a
\* beginning the page does not hold.
FuzzyTieAnchor ==
    Info(<<>>, Undefined, 27, "", "", "", "", "",
         "Zorg: quick brown fox jumps")

\* A text whose middle the second of the two paragraphs holds verbatim.
FuzzyExactAnchor ==
    Info(<<>>, Undefined, 27, "", "", "", "", "",
         "Zorg: quick brown fox jumqs")

\* A text whose middle agrees with a paragraph in 14 characters of 20.
FuzzyEdgeAnchor ==
    Info(<<>>, Undefined, 26, "", "", "", "", "",
         "Zorg: slick brawn bog lump")

\* A text whose first 20 characters are two letters and line breaks, and whose
\* end two paragraphs hold.
PartialSkipAnchor ==
    Info(<<>>, Undefined, 59, "", "", "", "", "",
         "ab\n\n\n\n\n\n\n\n\n\n\n\n\n\n\n\n\n\nzzqq xxkk vvjj wwpp the end of the tale")

\* A text whose first 20 characters normalize to nine, which a late paragraph
\* holds, and whose end earlier paragraphs hold.
PartialFirstAnchor ==
    Info(<<>>, Undefined, 60, "", "", "", "", "",
         "ab\n\n\n\n\n\n\n\n\n\n\n\ncdefgh zzqq xxkk vvjj wwpp the end of the tale")

\* A text of which the page holds only the middle.
PartialMiddleAnchor ==
    Info(<<>>, Undefined, 40, "", "", "", "", "",
         "Zorg! Vex the end of the tale blip. Kwah")

\* The stored anchors a page is asked to relocate.
Anchors ==
    << {QuickAnchor, OrderAnchor, OrderBare, NearAnchor, GoneAnchor, TailAnchor,
        LostAnchor, SlowAnchor},
       {HelloAnchor, SpanningAnchor, LostAnchor, UnknownIdAnchor, QuotedIdAnchor,
        OrdinalAnchor},
       {SpacedAnchor, WorldAnchor, HelloAnchor, FlatAnchor},
       {StyleAnchor, StyleStale, IndentAnchor, ShortAnchor, BlankAnchor},
       {TwinAnchor, TwinClassAnchor, TwinLastAnchor},
       {FuzzyTieAnchor, FuzzyExactAnchor, FuzzyEdgeAnchor, PartialSkipAnchor,
        PartialFirstAnchor, PartialMiddleAnchor} >>

-----------------------------------------------------------------------------
(* Relocation: highlightText from the message to its terminal outcome,     *)
(* and the display timers of the marks it leaves                           *)
(*                                                                         *)
(* Time passes only when a timer fires: a timer holds the time left until  *)
(* it is due, the one due first (the one set first, among equals) fires,   *)
(* and the others come that much closer.  The code between two awaits runs *)
(* without interruption: while a call is in its cascade no message, no     *)
(* timer and no layout change is served.                                   *)

MaxRequests == 1

\* waitForPageStable
PollFirstDelay == 200
PollInterval == 150
maxWait == 1500
StableChecks == 2
\* scrollToAndRemove
FadeDelay == 3000
RemoveDelay == 500

\* A timer that is due at once.
Timer_NoDelay(k, delay, c, m) ==
    [kind |-> k, rem |-> 0, delay |-> delay, call |-> c, mark |-> m]

Timer(k, delay, c, m) ==
    [kind |-> k, rem |-> delay, delay |-> delay, call |-> c, mark |-> m]

\* The call highlightText(selectionInfo) as it stands at its first await.
\* selectionInfo is not read before the wait is over: the model draws it
\* there.
NewCall(height) ==
    [info |-> NoInfo,
     lastHeight |-> height, stableCount |-> 0, elapsed |-> 0, timedOut |-> FALSE,
     highlighted |-> FALSE, invoked |-> <<>>, tier |-> 0,
     made |-> 0, fallbacks |-> 0]

At(where, k) == [at |-> where, step |-> k]

Running == \E c \in 1..Len(pc) : pc[c].at = "running"
InFlight == \E c \in 1..Len(pc) : pc[c].at = "waiting"

\* The timer that fires next.
NextTimer ==
    MinOf({i \in 1..Len(timers) :
              \A j \in 1..Len(timers) : timers[i].rem <= timers[j].rem})

\* The timers left once timer i has fired.
Fired(i) ==
    LET rest == [j \in 1..(Len(timers) - 1) |->
                    IF j < i THEN timers[j] ELSE timers[j + 1]]
    IN  [j \in 1..Len(rest) |-> [rest[j] EXCEPT !.rem = @ - timers[i].rem]]

\* The marks once ms milliseconds have passed: age is the time since
\* createHighlightMark made the mark, counted while its timers are pending.
Aged(ms) ==
    [m \in 1..Len(marks) |->
        IF marks[m].phase \in {"visible", "fading"}
        THEN [marks[m] EXCEPT !.age = @ + ms] ELSE marks[m]]

Due(kind) ==
    /\ page # 0
    /\ ~ Running
    /\ timers # <<>>
    /\ timers[NextTimer].kind = kind

\* chrome.runtime.onMessage: a HIGHLIGHT_TEXT message starts highlightText,
\* which runs up to the await in waitForPageStable.
Request ==
    /\ page # 0
    /\ ~ Running
    /\ Len(calls) < MaxRequests
    /\ calls' = Append(calls, NewCall(scrollHeight))
    /\ pc' = Append(pc, At("waiting", 0))
    /\ timers' = Append(timers, Timer("poll", PollFirstDelay, Len(calls) + 1, 0))
    /\ UNCHANGED <<page, document, scrollHeight, marks>>

\* Lazy content changes document.body.scrollHeight while a call waits.
ChangeHeight ==
    /\ page # 0
    /\ ~ Running
    /\ InFlight
    /\ scrollHeight' = 1 - scrollHeight
    /\ UNCHANGED <<page, document, calls, pc, timers, marks>>

\* The tab leaves the page: its timers and its waiting calls go with it.
Navigate ==
    /\ page # 0
    /\ ~ Running
    /\ InFlight
    /\ page' = 0
    /\ pc' = [c \in 1..Len(pc) |->
                 IF pc[c].at = "waiting" THEN At("abandoned", 0) ELSE pc[c]]
    /\ timers' = <<>>
    /\ UNCHANGED <<document, scrollHeight, calls, marks>>

\* The wait ends at the first poll that finds the height unchanged.
StableOrTimedOut_OneCheck(stableCount, elapsed) ==
    stableCount >= 1 \/ elapsed > maxWait

\* The wait goes on without the time limit.
StableOrTimedOut_NoLimit(stableCount, elapsed) == stableCount >= StableChecks

\* stableCount >= 2 || Date.now() - startTime > maxWait
StableOrTimedOut(stableCount, elapsed) ==
    stableCount >= StableChecks \/ elapsed > maxWait

\* checkStable, and on resolve the start of the cascade with the payload of
\* the message; the variables of the closure of waitForPageStable end there.
CheckStable(c) ==
    /\ Due("poll")
    /\ timers[NextTimer].call = c
    /\ LET call == calls[c]
           same == scrollHeight = call.lastHeight
           count == IF same THEN call.stableCount + 1 ELSE 0
           elapsed == Min2(call.elapsed + timers[NextTimer].delay,
                           maxWait + PollInterval)
           polled == [call EXCEPT !.stableCount = count,
                                  !.lastHeight = scrollHeight,
                                  !.elapsed = elapsed]
       IN  IF StableOrTimedOut(count, elapsed)
           THEN /\ \E info \in Anchors[page] :
                     calls' = [calls EXCEPT ![c] =
                                  [NewCall(0) EXCEPT
                                      !.info = info,
                                      !.timedOut = count < StableChecks]]
                /\ pc' = [pc EXCEPT ![c] = At("running", 1)]
                /\ timers' = Fired(NextTimer)
           ELSE /\ calls' = [calls EXCEPT ![c] = polled]
                /\ pc' = pc
                /\ timers' = Append(Fired(NextTimer),
                                    Timer("poll", PollInterval, c, 0))
    /\ marks' = Aged(timers[NextTimer].rem)
    /\ UNCHANGED <<page, document, scrollHeight>>

\* A strategy is run although an earlier one succeeded.
ShouldAttempt_IgnoreSuccess(highlighted, gate) == gate

\* if (!highlighted && <gate>)
ShouldAttempt(highlighted, gate) == ~ highlighted /\ gate

\* if (!highlighted)
FallbackDue(highlighted) == ~ highlighted

\* The mark the next createHighlightMark makes.
NextMark == Len(marks) + 1

\* One "Method k" statement of highlightText: strategy k is invoked when no
\* earlier one succeeded and its gate holds.  res is what the strategy
\* returns; a strategy that succeeds has called scrollToAndRemove, which
\* sets the fade timer of its mark.
Attempt(c, k, gate, res, tier) ==
    /\ page # 0
    /\ c \in 1..Len(calls)
    /\ pc[c] = At("running", k)
    /\ pc' = [pc EXCEPT ![c] = At("running", k + 1)]
    /\ IF ShouldAttempt(calls[c].highlighted, gate)
       THEN /\ calls' = [calls EXCEPT ![c] =
                            [@ EXCEPT !.invoked = Append(@, k),
                                      !.highlighted = res.ok,
                                      !.made = @ + res.made,
                                      !.tier = IF k = 3 THEN tier ELSE @]]
            /\ document' = res.doc
            /\ marks' = IF res.made = 0 THEN marks
                        ELSE Append(marks,
                                 [phase |-> IF res.ok THEN "visible" ELSE "stray",
                                  call |-> c, age |-> 0])
            /\ timers' = IF res.ok
                         THEN Append(timers, Timer("fade", FadeDelay, c, NextMark))
                         ELSE timers
       ELSE UNCHANGED <<calls, document, marks, timers>>
    /\ UNCHANGED <<page, scrollHeight>>

Method1(c) ==
    Attempt(c, 1, calls[c].info.xpath # <<>>,
            tryXPathHighlight(document, calls[c].info, NextMark), 0)

Method2(c) ==
    Attempt(c, 2, Len(calls[c].info.originalText) >= 5,
            highlightByExactMatchWithScoring(document, calls[c].info.originalText,
                                             calls[c].info, NextMark), 0)

Method3(c) ==
    Attempt(c, 3, Len(calls[c].info.originalText) >= 10,
            highlightByFirstLine(document, calls[c].info.originalText, NextMark),
            LET t == FirstLineTier(document, firstLineOf(calls[c].info.originalText))
            IN  IF t = 0 THEN 0 ELSE prefixLengths[t])

Method4(c) ==
    Attempt(c, 4, Len(calls[c].info.originalText) >= 15,
            highlightByWindowedSearch(document, calls[c].info.originalText,
                                      NextMark), 0)

Method5(c) ==
    Attempt(c, 5, Len(calls[c].info.originalText) >= 20,
            highlightByFuzzyMatch(document, calls[c].info.originalText, NextMark), 0)

Method6(c) ==
    Attempt(c, 6, Len(calls[c].info.surroundingText) > 0,
            highlightByTextSearch(document, calls[c].info.surroundingText,
                                  NextMark), 0)

Method7(c) ==
    Attempt(c, 7, Len(calls[c].info.originalText) >= 10,
            highlightByPartialMatch(document, calls[c].info.originalText,
                                    NextMark), 0)

\* The end of highlightText: window.scrollTo({top: 0}) when nothing was
\* highlighted.
Finish(c) ==
    /\ page # 0
    /\ c \in 1..Len(calls)
    /\ pc[c] = At("running", 8)
    /\ pc' = [pc EXCEPT ![c] = At("done", 8)]
    /\ calls' = [calls EXCEPT ![c].fallbacks =
                    IF FallbackDue(calls[c].highlighted) THEN @ + 1 ELSE @]
    /\ UNCHANGED <<page, document, scrollHeight, timers, marks>>

\* The outer timer of scrollToAndRemove: the mark's styling goes neutral and
\* the inner timer is set.
FadeMark(m) ==
    /\ Due("fade")
    /\ timers[NextTimer].mark = m
    /\ marks' = [Aged(timers[NextTimer].rem) EXCEPT ![m].phase = "fading"]
    /\ timers' = Append(Fired(NextTimer),
                        Timer("unwrap", RemoveDelay, timers[NextTimer].call, m))
    /\ UNCHANGED <<page, document, scrollHeight, calls, pc>>

\* The inner timer fires: all that its callback does outside the document.
UnwrapTimer(m) ==
    /\ Due("unwrap")
    /\ timers[NextTimer].mark = m
    /\ marks' = [Aged(timers[NextTimer].rem) EXCEPT ![m].phase = "reverted"]
    /\ timers' = Fired(NextTimer)
    /\ UNCHANGED <<page, scrollHeight, calls, pc>>

\* The inner timer: the mark is replaced by its text.
UnwrapMark(m) ==
    /\ UnwrapTimer(m)
    /\ document' = unwrapMark(document, m)

PageInit ==
    /\ page \in 1..Len(Pages)
    /\ document = Pages[page]
    /\ scrollHeight = 0
    /\ calls = <<>>
    /\ pc = <<>>
    /\ timers = <<>>
    /\ marks = <<>>

-----------------------------------------------------------------------------
(* Capture: the selection, the anchor getSelectionContext builds from it   *)
(*                                                                         *)
(* A selection is [rangeCount, range]; a range is its two boundary points, *)
(* each a container path and an offset that counts characters in a text    *)
(* node and child nodes in an element.                                     *)

DomRange(sc, so, ec, eo) ==
    [startContainer |-> sc, startOffset |-> so, endContainer |-> ec, endOffset |-> eo]

NoSelection == [rangeCount |-> 0, range |-> DomRange(<<>>, 0, <<>>, 0)]
Selected(sc, so, ec, eo) == [rangeCount |-> 1, range |-> DomRange(sc, so, ec, eo)]

\* The path a boundary point stands at: its text node, or the child of its
\* element in front of which it lies.
PointPath(doc, container, offset) ==
    IF NodeAt(doc, container).kind = "T" THEN container
    ELSE Append(container, offset + 1)

\* Whether the node at path q lies behind the start, in front of the end of
\* the range: q is a text node other than the boundary containers, or an
\* element without children.
AfterStart(doc, range, q) ==
    LET point == PointPath(doc, range.startContainer, range.startOffset)
    IN  q = point \/ Precedes(point, q)

BeforeEnd(doc, range, q) ==
    Precedes(q, PointPath(doc, range.endContainer, range.endOffset))

\* selection.toString(): the text of the text nodes inside the range, in
\* document order, with a line feed for every BR element inside it.
RECURSIVE RangeText(_, _, _, _)
RangeText(doc, node, q, range) ==
    IF node.kind = "T"
    THEN LET lo == IF range.startContainer = q THEN range.startOffset
                   ELSE IF AfterStart(doc, range, q) THEN 0 ELSE Len(node.data)
             hi == IF range.endContainer = q THEN range.endOffset
                   ELSE IF BeforeEnd(doc, range, q) THEN Len(node.data) ELSE 0
         IN  SubSeq(node.data, lo + 1, hi)
    ELSE IF node.tag = "BR"
    THEN IF AfterStart(doc, range, q) /\ BeforeEnd(doc, range, q)
         THEN <<"\n">> ELSE <<>>
    ELSE LET F[i \in 0..Len(node.kids)] ==
                 IF i = 0 THEN <<>>
                 ELSE F[i - 1] \o RangeText(doc, node.kids[i], Append(q, i), range)
         IN  F[Len(node.kids)]

SelectionText(doc, selection) ==
    IF selection.rangeCount = 0 THEN <<>>
    ELSE RangeText(doc, doc, <<>>, selection.range)

\* range.commonAncestorContainer: the deepest node that holds both boundary
\* containers.
commonAncestorContainer(range) ==
    LET p == range.startContainer
        q == range.endContainer
        n == CHOOSE k \in 0..Min2(Len(p), Len(q)) :
                /\ SubSeq(p, 1, k) = SubSeq(q, 1, k)
                /\ \A j \in (k + 1)..Min2(Len(p), Len(q)) :
                      SubSeq(p, 1, j) # SubSeq(q, 1, j)
    IN  SubSeq(p, 1, n)

\* getSurroundingText(element, length)
getSurroundingText(doc, path, length) ==
    Substring(textContent(NodeAt(doc, path)), 0, length * 2)

\* className.split(' ')[0]
FirstClass(cls) ==
    LET spaces == {i \in 1..Len(cls) : SubSeq(cls, i, i) = " "}
    IN  IF spaces = {} THEN cls ELSE SubSeq(cls, 1, MinOf(spaces) - 1)

\* The elements of an SVG keep their tag names in lower case, and their
\* className is an SVGAnimatedString, which has no split method.
SvgTags == {"svg", "text", "tspan"}

\* container.nodeType === Node.TEXT_NODE ? container.parentElement : container
ParentElementOf(doc, container) ==
    IF NodeAt(doc, container).kind = "T" THEN ParentPath(container) ELSE container

\* The statements of the try block of getSelectionContext that throw:
\* parentElement.className.split on an element of an SVG.
ExtractionThrows(doc, range) ==
    NodeAt(doc, ParentElementOf(doc, commonAncestorContainer(range))).tag \in SvgTags

NullAnchor == [null |-> TRUE]

\* The object the try block of getSelectionContext returns.
BuildAnchor(doc, selection) ==
    LET range == selection.range
        container == commonAncestorContainer(range)
        selectedText == SelectionText(doc, selection)
        fullText == textContent(NodeAt(doc, container))
        textIndex == IndexOf(fullText, selectedText)
        parentElement == NodeAt(doc, ParentElementOf(doc, container))
    IN  [null |-> FALSE,
         xpath |-> getXPath(doc, container),
         offset |-> range.startOffset,
         length |-> Len(selectedText),
         surroundingText |-> getSurroundingText(doc, container, 100),
         textBefore |-> IF textIndex > 0
                        THEN Substring(fullText, Max2(0, textIndex - 50), textIndex)
                        ELSE <<>>,
         textAfter |-> IF textIndex # -1
                       THEN Substring(fullText, textIndex + Len(selectedText),
                                      textIndex + Len(selectedText) + 50)
                       ELSE <<>>,
         parentTagName |-> parentElement.tag,
         parentClassName |-> FirstClass(parentElement.cls)]

\* getSelectionContext without its try and catch.
getSelectionContext_NoCatch(doc, selection) ==
    IF selection.rangeCount = 0 THEN [raised |-> FALSE, anchor |-> NullAnchor]
    ELSE IF ExtractionThrows(doc, selection.range)
    THEN [raised |-> TRUE, anchor |-> NullAnchor]
    ELSE [raised |-> FALSE, anchor |-> BuildAnchor(doc, selection)]

\* getSelectionContext(selection): what it returns, and whether it raised.
getSelectionContext(doc, selection) ==
    IF selection.rangeCount = 0 THEN [raised |-> FALSE, anchor |-> NullAnchor]
    ELSE IF ExtractionThrows(doc, selection.range)
    THEN [raised |-> FALSE, anchor |-> NullAnchor]
    ELSE [raised |-> FALSE, anchor |-> BuildAnchor(doc, selection)]

-----------------------------------------------------------------------------
(* Capture: the privacy gates of the copy listener                         *)

SENSITIVE_HOSTNAMES ==
    {Chars("accounts.google.com"), Chars("login.microsoftonline.com"),
     Chars("signin.aws.amazon.com"), Chars("auth0.com"), Chars("paypal.com"),
     Chars("www.paypal.com"), Chars("stripe.com"), Chars("dashboard.stripe.com"),
     Chars("1password.com"), Chars("my.1password.com"), Chars("lastpass.com"),
     Chars("vault.bitwarden.com"), Chars("app.dashlane.com")}

SENSITIVE_HOSTNAME_KEYWORDS ==
    {Chars("login"), Chars("signin"), Chars("signup"), Chars("auth"),
     Chars("bank"), Chars("banking")}

\* hostname === domain || hostname.endsWith('.' + domain)
HostIsOrBelow(hostname, domain) ==
    hostname = domain \/ EndsWith(hostname, <<".">> \o domain)

Digits == {"0", "1", "2", "3", "4", "5", "6", "7", "8", "9"}
Quotes == {"\"", "'"}

\* The class \w of a regular expression.
IsWordChar(c) ==
    \/ c \in Digits
    \/ c = "_"
    \/ \E i \in 1..26 : c = UpperLetters[i] \/ c = LowerLetters[i]

\* \b between the characters p and p + 1 of s (p counts from 0).
WordBoundary(s, p) ==
    (p > 0 /\ IsWordChar(s[p])) # (p < Len(s) /\ IsWordChar(s[p + 1]))

MatchesAtNoCase(s, word, p) ==
    /\ p >= 0
    /\ p + Len(word) <= Len(s)
    /\ \A k \in 1..Len(word) : toLowerChar(s[p + k]) = word[k]

\* The position behind the run of white space that starts behind position p:
\* where \s* stops when a character that is no white space has to follow it.
SkipWhiteSpace(s, p) ==
    CHOOSE q \in p..Len(s) :
        /\ \A j \in (p + 1)..q : s[j] \in JsWhiteSpace
        /\ q = Len(s) \/ s[q + 1] \notin JsWhiteSpace

AllDigits(s, from, to) == \A k \in from..to : s[k] \in Digits

\* /\b\d{13,19}\b/
CardNumberPattern(s) ==
    \E p \in 0..(Len(s) - 13) : \E n \in 13..19 :
        /\ p + n <= Len(s)
        /\ AllDigits(s, p + 1, p + n)
        /\ WordBoundary(s, p)
        /\ WordBoundary(s, p + n)

\* /\b\d{3}-\d{2}-\d{4}\b/
SsnPattern(s) ==
    \E p \in 0..(Len(s) - 11) :
        /\ AllDigits(s, p + 1, p + 3)
        /\ s[p + 4] = "-"
        /\ AllDigits(s, p + 5, p + 6)
        /\ s[p + 7] = "-"
        /\ AllDigits(s, p + 8, p + 11)
        /\ WordBoundary(s, p)
        /\ WordBoundary(s, p + 11)

\* /password["']?\s*[:=]\s*["']?[^"'\s]+/i
PasswordPattern(s) ==
    \E p \in 0..(Len(s) - 8) :
        /\ MatchesAtNoCase(s, Chars("password"), p)
        /\ LET a == p + 8
               b == IF a < Len(s) /\ s[a + 1] \in Quotes THEN a + 1 ELSE a
               c == SkipWhiteSpace(s, b)
           IN  /\ c < Len(s)
               /\ s[c + 1] \in {":", "="}
               /\ LET d == SkipWhiteSpace(s, c + 1)
                  IN  /\ d < Len(s)
                      /\ s[d + 1] \in Quotes =>
                             /\ d + 1 < Len(s)
                             /\ s[d + 2] \notin Quotes \cup JsWhiteSpace

\* /\bword\s*[:=]/i
AssignmentPattern(s, word) ==
    \E p \in 0..(Len(s) - Len(word)) :
        /\ MatchesAtNoCase(s, word, p)
        /\ WordBoundary(s, p)
        /\ LET q == SkipWhiteSpace(s, p + Len(word))
           IN  q < Len(s) /\ s[q + 1] \in {":", "="}

\* /-----BEGIN\s+(RSA\s+)?PRIVATE\s+KEY-----/
PrivateKeyPattern(s) ==
    \E p \in 0..(Len(s) - 10) :
        /\ MatchesAt(s, Chars("-----BEGIN"), p)
        /\ LET a == SkipWhiteSpace(s, p + 10)
               r == IF MatchesAt(s, Chars("RSA"), a) /\ SkipWhiteSpace(s, a + 3) > a + 3
                    THEN SkipWhiteSpace(s, a + 3) ELSE a
           IN  /\ a > p + 10
               /\ MatchesAt(s, Chars("PRIVATE"), r)
               /\ SkipWhiteSpace(s, r + 7) > r + 7
               /\ MatchesAt(s, Chars("KEY-----"), SkipWhiteSpace(s, r + 7))

\* SENSITIVE_PATTERNS.some(pattern => pattern.test(text))
SENSITIVE_PATTERNS(s) ==
    \/ CardNumberPattern(s)
    \/ SsnPattern(s)
    \/ PasswordPattern(s)
    \/ AssignmentPattern(s, Chars("secret"))
    \/ AssignmentPattern(s, Chars("apikey"))
    \/ AssignmentPattern(s, Chars("api_key"))
    \/ AssignmentPattern(s, Chars("api-key"))
    \/ AssignmentPattern(s, Chars("token"))
    \/ PrivateKeyPattern(s)

\* shouldSkipRecording(text, url); nearPassword says that the active element
\* is a password input or stands in a form that has one.
shouldSkipRecording(text, hostname, nearPassword) ==
    \/ \E domain \in SENSITIVE_HOSTNAMES : HostIsOrBelow(toLowerCase(hostname), domain)
    \/ \E keyword \in SENSITIVE_HOSTNAME_KEYWORDS : Includes(toLowerCase(hostname), keyword)
    \/ nearPassword
    \/ SENSITIVE_PATTERNS(text)

DefaultSettings == [incognitoMode |-> FALSE, blacklist |-> <<>>]

\* getUserSettings(): stored is what chrome.storage.local holds under
\* smartClipboardSettings, readable says whether the read of it succeeds.
getUserSettings(stored, readable) ==
    IF readable /\ stored.set THEN stored.value ELSE DefaultSettings

\* isInUserBlacklist(url, blacklist)
isInUserBlacklist(hostname, blacklist) ==
    \E i \in 1..Len(blacklist) :
        HostIsOrBelow(toLowerCase(hostname), toLowerCase(blacklist[i]))

\* Limit text length (max 10000 characters)
MaxTextLength == 10000
TruncationSuffix == Chars("... (truncated)")

LimitText(copiedText) ==
    IF Len(copiedText) > MaxTextLength
    THEN Substring(copiedText, 0, MaxTextLength) \o TruncationSuffix
    ELSE copiedText

-----------------------------------------------------------------------------
(* Normaliser harness: normalizeText applied to every short string         *)

MaxLen == 5
MaxApply == 2
MaxEqLen == 3

NormAlphabet == {"a", "A", " ", "U3000", "U200B", "UFEFF"}
StringsUpTo(n) == UNION {[1..k -> NormAlphabet] : k \in 0..n}

\* The white space the edits below insert, delete and exchange.
EditWhiteSpace == {" ", "U3000"}

IsLetter(c) == \E i \in 1..26 : UpperLetters[i] = c \/ LowerLetters[i] = c

SwapCase(c) ==
    IF \E i \in 1..26 : UpperLetters[i] = c
    THEN toLowerChar(c)
    ELSE UpperLetters[CHOOSE i \in 1..26 : LowerLetters[i] = c]

InsertAt(s, i, c) == SubSeq(s, 1, i) \o <<c>> \o SubSeq(s, i + 1, Len(s))
RemoveAt(s, i) == SubSeq(s, 1, i - 1) \o SubSeq(s, i + 1, Len(s))

NormInit ==
    /\ nIn \in StringsUpTo(MaxLen)
    /\ nText = nIn
    /\ nApplied = 0

\* s' = normalizeText(s)
ApplyNormalize ==
    /\ nApplied < MaxApply
    /\ nText' = normalizeText(nText)
    /\ nApplied' = nApplied + 1
    /\ UNCHANGED <<nIn, codecVars, pageVars, scoreVars, captureVars, storeVars>>

NormNext == ApplyNormalize

\* The second harness edits nText without leaving the class of strings that
\* differ from nIn only in letter case, in the length or kind of their white
\* space runs, or in leading and trailing white space.
NormEqInit ==
    /\ nIn \in StringsUpTo(MaxEqLen)
    /\ nText = nIn
    /\ nApplied = 0

FlipCase ==
    \E i \in 1..Len(nText) :
        /\ IsLetter(nText[i])
        /\ nText' = [nText EXCEPT ![i] = SwapCase(nText[i])]
        /\ UNCHANGED <<nIn, nApplied, codecVars, pageVars, scoreVars, captureVars, storeVars>>

ChangeWhiteSpaceKind ==
    \E i \in 1..Len(nText), c \in EditWhiteSpace :
        /\ nText[i] \in EditWhiteSpace
        /\ c # nText[i]
        /\ nText' = [nText EXCEPT ![i] = c]
        /\ UNCHANGED <<nIn, nApplied, codecVars, pageVars, scoreVars, captureVars, storeVars>>

LengthenRun ==
    \E i \in 1..Len(nText), c \in EditWhiteSpace :
        /\ Len(nText) <= MaxEqLen
        /\ nText[i] \in EditWhiteSpace
        /\ nText' = InsertAt(nText, i, c)
        /\ UNCHANGED <<nIn, nApplied, codecVars, pageVars, scoreVars, captureVars, storeVars>>

ShortenRun ==
    \E i \in 1..Len(nText) :
        /\ nText[i] \in EditWhiteSpace
        /\ \/ i > 1 /\ nText[i - 1] \in EditWhiteSpace
           \/ i < Len(nText) /\ nText[i + 1] \in EditWhiteSpace
        /\ nText' = RemoveAt(nText, i)
        /\ UNCHANGED <<nIn, nApplied, codecVars, pageVars, scoreVars, captureVars, storeVars>>

AddEdgeWhiteSpace ==
    \E c \in EditWhiteSpace :
        /\ Len(nText) <= MaxEqLen
        /\ nText' \in {<<c>> \o nText, Append(nText, c)}
        /\ UNCHANGED <<nIn, nApplied, codecVars, pageVars, scoreVars, captureVars, storeVars>>

RemoveEdgeWhiteSpace ==
    /\ Len(nText) > 0
    /\ \/ nText[1] \in EditWhiteSpace /\ nText' = Tail(nText)
       \/ nText[Len(nText)] \in EditWhiteSpace
            /\ nText' = SubSeq(nText, 1, Len(nText) - 1)
    /\ UNCHANGED <<nIn, nApplied, codecVars, pageVars, scoreVars, captureVars, storeVars>>

NormEqNext ==
    \/ FlipCase
    \/ ChangeWhiteSpaceKind
    \/ LengthenRun
    \/ ShortenRun
    \/ AddEdgeWhiteSpace
    \/ RemoveEdgeWhiteSpace

-----------------------------------------------------------------------------
(* Codec harness: every small element tree, one element encoded, the       *)
(* document changed without disturbing same-tag sibling order, the address *)
(* decoded                                                                 *)

MaxElems == 3

HarnessTags == {"DIV", "P"}
\* A document's elements either carry no id or the one id of the document:
\* an ordinary one, or one that holds a double quote.
HarnessIds == {"x", "q\"q"}

\* The element tree in which element i > 0 is a child of element par[i]
\* (0 is the body), siblings ordered by number.
RECURSIVE BuildElem(_, _, _, _)
BuildElem(par, tg, ids, i) ==
    LET C == {j \in DOMAIN par : par[j] = i}
        nth(k) == CHOOSE j \in C : Cardinality({m \in C : m < j}) = k - 1
    IN  Element(i, IF i = 0 THEN "BODY" ELSE tg[i],
                IF i = 0 THEN "" ELSE ids[i], "",
                [k \in 1..Cardinality(C) |-> BuildElem(par, tg, ids, nth(k))])

HarnessDocs ==
    UNION {
      {BuildElem(par, tg, ids, 0) :
          par \in {f \in [1..n -> 0..(n - 1)] : \A i \in 1..n : f[i] < i},
          tg \in [1..n -> HarnessTags],
          ids \in UNION {[1..n -> {"", i}] : i \in HarnessIds}}
      : n \in 1..MaxElems}

\* uid of the element a mutation of the document inserts.
InsertedUid == MaxElems + 1

CodecInit ==
    /\ xDoc \in HarnessDocs
    /\ xElem = -1 /\ xAddr = <<>> /\ xFound = -1 /\ xStage = "start"

\* address = getXPath(element)
Encode ==
    \E i \in 1..Len(ElementPaths(xDoc)) :
        LET path == ElementPaths(xDoc)[i]
        IN  /\ xStage = "start"
            /\ xElem' = NodeAt(xDoc, path).uid
            /\ xAddr' = getXPath(xDoc, path)
            /\ xStage' = "encoded"
            /\ UNCHANGED <<xDoc, xFound>>

\* The page inserts an element of a tag no encoded element has (an injected
\* ad, say) as the first child of some element: same-tag sibling order is
\* unchanged at every level.
InsertForeignElement ==
    \E i \in 1..Len(ElementPaths(xDoc)) :
        LET path == ElementPaths(xDoc)[i]
            parent == NodeAt(xDoc, path)
            ins == Element(InsertedUid, "INS", "", "", <<>>)
        IN  /\ xStage = "encoded"
            /\ PathOfUid(xDoc, InsertedUid) = NullPath
            /\ xDoc' = ReplaceAt(xDoc, path,
                           [parent EXCEPT !.kids = <<ins>> \o parent.kids])
            /\ UNCHANGED <<xElem, xAddr, xFound, xStage>>

\* element = getElementByXPath(address)
Decode ==
    /\ xStage = "encoded"
    /\ xAddr # <<>>
    /\ LET found == getElementByXPath(xDoc, xAddr)
       IN  xFound' = IF found = NullPath THEN -1 ELSE NodeAt(xDoc, found).uid
    /\ xStage' = "decoded"
    /\ UNCHANGED <<xDoc, xElem, xAddr>>

CodecNext ==
    \/ Encode /\ UNCHANGED <<normVars, pageVars, scoreVars, captureVars, storeVars>>
    \/ InsertForeignElement /\ UNCHANGED <<normVars, pageVars, scoreVars, captureVars, storeVars>>
    \/ Decode /\ UNCHANGED <<normVars, pageVars, scoreVars, captureVars, storeVars>>

-----------------------------------------------------------------------------
(* Scorer harness: one candidate match in one text node, scored with an    *)
(* anchor to which a text before or a text after that is really there is   *)
(* added                                                                   *)

MaxNodeLen == 4

ScoreAlphabet == {"a", "B", " ", "U200B"}
ScoreTexts == UNION {[1..k -> ScoreAlphabet] : k \in 0..MaxNodeLen}

\* <body><p class="note">text</p></body>
ScoreDoc(text) ==
    Element(1, "BODY", "", "", <<Element(2, "P", "", "note", <<TextNode(text)>>)>>)
ScoreNode == <<1, 1>>

\* The structural signals an anchor may carry: none, those of the node's
\* parent, those of another element.
ParentSignals == {<<"", "">>, <<"P", "note">>, <<"DIV", "">>}

ScoreInit ==
    /\ \E text \in ScoreTexts : sDoc = ScoreDoc(text)
    /\ sIndex \in 0..Len(DataAt(sDoc, ScoreNode))
    /\ \E n \in 0..(Len(DataAt(sDoc, ScoreNode)) - sIndex), sig \in ParentSignals :
          sInfo = [NoInfo EXCEPT !.length = n, !.parentTagName = sig[1],
                                 !.parentClassName = sig[2]]
    /\ sBase = 0 - 1
    /\ sScore = 0 - 1

\* The anchor gains a text before: characters that immediately precede the
\* match in the node.
AddTextBefore ==
    /\ sInfo.textBefore = <<>>
    /\ \E k \in 1..sIndex :
          /\ sInfo' = [sInfo EXCEPT !.textBefore =
                          SubSeq(DataAt(sDoc, ScoreNode), sIndex - k + 1, sIndex)]
          /\ sBase' = calculateContextScore(sDoc, ScoreNode, sIndex, sInfo)
          /\ sScore' = calculateContextScore(sDoc, ScoreNode, sIndex, sInfo')
    /\ UNCHANGED <<sDoc, sIndex>>

\* The anchor gains a text after: characters that immediately follow the
\* match in the node.
AddTextAfter ==
    /\ sInfo.textAfter = <<>>
    /\ \E k \in 1..(Len(DataAt(sDoc, ScoreNode)) - sIndex - sInfo.length) :
          /\ sInfo' = [sInfo EXCEPT !.textAfter =
                          SubSeq(DataAt(sDoc, ScoreNode),
                                 sIndex + sInfo.length + 1,
                                 sIndex + sInfo.length + k)]
          /\ sBase' = calculateContextScore(sDoc, ScoreNode, sIndex, sInfo)
          /\ sScore' = calculateContextScore(sDoc, ScoreNode, sIndex, sInfo')
    /\ UNCHANGED <<sDoc, sIndex>>

ScoreNext ==
    \/ AddTextBefore /\ UNCHANGED <<normVars, codecVars, pageVars, captureVars, storeVars>>
    \/ AddTextAfter /\ UNCHANGED <<normVars, codecVars, pageVars, captureVars, storeVars>>

-----------------------------------------------------------------------------
(* Capture harness: one copy event on one page, from the copy listener to  *)
(* the COPY_DETECTED message                                               *)

\* The pages the selections are made on.
ProsePage ==
    Element(1, "BODY", "", "", <<
        Element(2, "P", "", "intro wide", <<TextNode(Chars("The quick brown fox"))>>),
        Element(3, "P", "", "", <<TextNode(Chars("   "))>>) >>)

EmphasisPage ==
    Element(1, "BODY", "", "", <<
        Element(2, "DIV", "", "", <<
            TextNode(Chars("Hello ")),
            Element(3, "B", "", "", <<TextNode(Chars("big"))>>),
            TextNode(Chars(" world")) >>) >>)

BreakPage ==
    Element(1, "BODY", "", "", <<
        Element(2, "P", "", "", <<
            TextNode(Chars("ab")),
            Element(3, "BR", "", "", <<>>),
            TextNode(Chars("cd")) >>) >>)

ChartPage ==
    Element(1, "BODY", "", "", <<
        Element(2, "svg", "", "", <<
            Element(3, "text", "", "", <<TextNode(Chars("axis label"))>>) >>) >>)

SecretsPage ==
    Element(1, "BODY", "", "", <<
        Element(2, "P", "", "", <<TextNode(Chars("card 4111111111111111 ok"))>>),
        Element(3, "P", "", "", <<TextNode(Chars("my Password: hunter2"))>>),
        Element(4, "P", "", "", <<TextNode(Chars("API_KEY = 12"))>>),
        Element(5, "P", "", "", <<TextNode(Chars("tokens: 3"))>>) >>)

\* A paragraph that holds the same word twice.
EchoPage ==
    Element(1, "BODY", "", "", <<
        Element(2, "P", "", "", <<TextNode(Chars("tick tock tick"))>>) >>)

LongText == [i \in 1..(MaxTextLength + 1) |-> "a"]

LongPage ==
    Element(1, "BODY", "", "", <<
        Element(2, "PRE", "", "", <<TextNode(LongText)>>) >>)

\* The documents with the selections made in them.
Selections ==
    {[doc |-> ProsePage, selection |-> Selected(<<1, 1>>, 4, <<1, 1>>, 9)],
     [doc |-> ProsePage, selection |-> Selected(<<2, 1>>, 0, <<2, 1>>, 3)],
     [doc |-> ProsePage, selection |-> Selected(<<>>, 0, <<>>, 2)],
     [doc |-> EmphasisPage, selection |-> Selected(<<1, 2, 1>>, 1, <<1, 3>>, 6)],
     [doc |-> BreakPage, selection |-> Selected(<<1, 1>>, 0, <<1, 3>>, 2)],
     [doc |-> BreakPage, selection |-> Selected(<<1>>, 2, <<1, 3>>, 2)],
     [doc |-> ChartPage, selection |-> Selected(<<1, 1, 1>>, 0, <<1, 1, 1>>, 4)],
     [doc |-> SecretsPage, selection |-> Selected(<<1, 1>>, 0, <<1, 1>>, 24)],
     [doc |-> SecretsPage, selection |-> Selected(<<2, 1>>, 3, <<2, 1>>, 20)],
     [doc |-> SecretsPage, selection |-> Selected(<<3, 1>>, 0, <<3, 1>>, 12)],
     [doc |-> SecretsPage, selection |-> Selected(<<4, 1>>, 0, <<4, 1>>, 9)],
     [doc |-> EchoPage, selection |-> Selected(<<1, 1>>, 10, <<1, 1>>, 14)],
     [doc |-> EchoPage, selection |-> Selected(<<1, 1>>, 5, <<1, 1>>, 9)],
     [doc |-> LongPage, selection |-> Selected(<<1, 1>>, 0, <<1, 1>>, MaxTextLength + 1)]}

\* window.location.hostname
Hostnames ==
    {Chars("news.example.org"), Chars("example.com"), Chars("docs.example.com"),
     Chars("notexample.com"), Chars("www.paypal.com"), Chars("mybank.example.org")}

\* What chrome.storage.local holds under smartClipboardSettings.
StoredSettings ==
    {[set |-> FALSE, value |-> DefaultSettings],
     [set |-> TRUE, value |-> [incognitoMode |-> FALSE, blacklist |-> <<>>]],
     [set |-> TRUE, value |-> [incognitoMode |-> TRUE, blacklist |-> <<>>]],
     [set |-> TRUE, value |-> [incognitoMode |-> FALSE,
                               blacklist |-> <<Chars("example.com")>>]]}

CaptureInputs ==
    {[doc |-> sel.doc, selection |-> sel.selection, hostname |-> host,
      pageTitle |-> "Page", stored |-> stored, nearPassword |-> near,
      contextValid |-> valid] :
        sel \in Selections, host \in Hostnames, stored \in StoredSettings,
        near \in BOOLEAN, valid \in BOOLEAN}

CaptureInit ==
    /\ cIn \in CaptureInputs
    /\ cPc = "idle"
    /\ cLocal = [copiedText |-> <<>>, text |-> <<>>, built |-> 0, outcome |-> "none"]
    /\ cSent = <<>>

\* The copy listener up to its await: the context check, the trimmed text of
\* the selection, the return for an empty one.
CopyEvent ==
    /\ cPc = "idle"
    /\ LET copiedText == Trim(SelectionText(cIn.doc, cIn.selection))
       IN  IF ~ cIn.contextValid
           THEN /\ cPc' = "done"
                /\ cLocal' = [cLocal EXCEPT !.outcome = "invalid"]
           ELSE IF copiedText = <<>>
           THEN /\ cPc' = "done"
                /\ cLocal' = [cLocal EXCEPT !.outcome = "empty"]
           ELSE /\ cPc' = "settings"
                /\ cLocal' = [cLocal EXCEPT !.copiedText = copiedText]
    /\ UNCHANGED <<cIn, cSent>>

\* The selection is a live object: while the listener waits for the settings
\* the page or the user may empty it or collapse it to its start.
SelectionChange ==
    /\ cPc = "settings"
    /\ cIn.selection.rangeCount = 1
    /\ LET range == cIn.selection.range
       IN  \E changed \in {NoSelection,
                           Selected(range.startContainer, range.startOffset,
                                    range.startContainer, range.startOffset)} :
               /\ changed # cIn.selection
               /\ cIn' = [cIn EXCEPT !.selection = changed]
    /\ UNCHANGED <<cPc, cLocal, cSent>>

\* The message chrome.runtime.sendMessage is given.
CopyDetected(text, anchor) ==
    [type |-> "COPY_DETECTED",
     data |-> [text |-> text, url |-> cIn.hostname, pageTitle |-> cIn.pageTitle,
               timestamp |-> "now", selectionInfo |-> anchor]]

\* The copy listener from the settings on: the incognito and the blacklist
\* return, the limit of the text, the sensitive return, the anchor, the
\* message.
CopyContinue ==
    /\ cPc = "settings"
    /\ \E readable \in BOOLEAN :
          LET settings == getUserSettings(cIn.stored, readable)
              text == LimitText(cLocal.copiedText)
              extraction == getSelectionContext(cIn.doc, cIn.selection)
          IN  IF settings.incognitoMode
              THEN /\ cLocal' = [cLocal EXCEPT !.outcome = "incognito"]
                   /\ cSent' = cSent
              ELSE IF isInUserBlacklist(cIn.hostname, settings.blacklist)
              THEN /\ cLocal' = [cLocal EXCEPT !.outcome = "blacklisted"]
                   /\ cSent' = cSent
              ELSE IF shouldSkipRecording(text, cIn.hostname, cIn.nearPassword)
              THEN /\ cLocal' = [cLocal EXCEPT !.text = text, !.outcome = "sensitive"]
                   /\ cSent' = cSent
              ELSE IF extraction.raised
              THEN /\ cLocal' = [cLocal EXCEPT !.text = text, !.built = 1,
                                               !.outcome = "raised"]
                   /\ cSent' = cSent
              ELSE /\ cLocal' = [cLocal EXCEPT !.text = text, !.built = 1,
                                               !.outcome = "sent"]
                   /\ cSent' = Append(cSent, CopyDetected(text, extraction.anchor))
    /\ cPc' = "done"
    /\ UNCHANGED cIn

CaptureNext ==
    \/ CopyEvent /\ UNCHANGED <<normVars, codecVars, pageVars, scoreVars, storeVars>>
    \/ SelectionChange /\ UNCHANGED <<normVars, codecVars, pageVars, scoreVars, storeVars>>
    \/ CopyContinue /\ UNCHANGED <<normVars, codecVars, pageVars, scoreVars, storeVars>>

-----------------------------------------------------------------------------
(* History store: the service worker's saveClipboardItem and the sidebar's *)
(* delete, edit, clear, import and cleanup, over chrome.storage.local      *)
(*                                                                         *)
(* chrome.storage.local.get answers with the value stored when it is       *)
(* served; the code behind the await runs later, without interruption up   *)
(* to its next await.  A set takes effect when it is called and queues a   *)
(* storage.onChanged event for the sidebar.  Time is counted in ticks.     *)

MAX_ITEMS == 1000
cleanupDays == 30

TicksPerDay == 2
MaxTicks == 1
MaxSaves == 2
MaxSidebarOps == 1

\* The last tick of a day.
StartTime == 100 * TicksPerDay + (TicksPerDay - 1)

\* new Date().setHours(0, 0, 0, 0)
todayStart(time) == (time \div TicksPerDay) * TicksPerDay

Item(id, text, url, timestamp) ==
    [id |-> id, text |-> text, url |-> url, timestamp |-> timestamp]

Ids(history) == {history[i].id : i \in 1..Len(history)}

\* A history as earlier saves left it: newest first, ten items to a tick,
\* every item with a text of its own.
SeedHistory(n) ==
    [k \in 1..n |-> Item(k, ToString(k), "u", StartTime - 1 - (k \div 10))]

InitialSizes == {2, MAX_ITEMS}
CopiedTexts == {"a"}
EditedTexts == {"a"}

\* The items of the list the user acts on: the first and the last.
Shown(history) ==
    IF Len(history) = 0 THEN {} ELSE {history[1].id, history[Len(history)].id}

\* The files the user imports: a JSON array, an object with a data array,
\* another value; items with every field, and one without text.
ImportFiles ==
    {[shape |-> "array",
      data |-> <<Item(3001, "new", "u", StartTime), Item(1, "other", "u", 5),
                 Item(MAX_ITEMS, "other", "u", StartTime - 1)>>],
     [shape |-> "object", data |-> <<Item(3002, "old", "u", 7)>>],
     [shape |-> "other", data |-> <<Item(3003, "new", "u", StartTime)>>],
     [shape |-> "array",
      data |-> <<Item(3004, "new", "u", StartTime), Item(3005, "", "u", 9)>>]}

NoJob == [kind |-> "none", data |-> <<>>, existing |-> <<>>, cutoff |-> 0]

StoreInit ==
    /\ \E n \in InitialSizes : clipboardHistory = SeedHistory(n)
    /\ sidebarHistory = clipboardHistory
    /\ changes = <<>>
    /\ saves = <<>>
    /\ job = NoJob
    /\ timeouts = {}
    /\ clock = StartTime
    /\ ledger = [saved |-> {}, savedOn |-> {}, deleted |-> {}, ops |-> 0,
                 last |-> [op |-> "none", id |-> 0]]

Did(op, id) == [op |-> op, id |-> id]

\* chrome.storage.local.set({clipboardHistory: history})
StorageSet(history) ==
    /\ clipboardHistory' = history
    /\ changes' = Append(changes, history)

\* Date.now() moves on.
Tick ==
    /\ clock < StartTime + MaxTicks
    /\ clock' = clock + 1
    /\ UNCHANGED <<clipboardHistory, sidebarHistory, changes, saves, job, timeouts,
                   ledger>>

\* The COPY_DETECTED listener: saveClipboardItem(message.data) up to its
\* first await; the timestamp of the data is the content script's Date.now().
CopyDetectedReceived ==
    /\ Len(saves) < MaxSaves
    /\ \E text \in CopiedTexts :
          saves' = Append(saves,
                      [data |-> [text |-> text, url |-> "u", timestamp |-> clock],
                       at |-> "quota", history |-> <<>>, id |-> 0])
    /\ UNCHANGED <<clipboardHistory, sidebarHistory, changes, job, timeouts, clock,
                   ledger>>

\* saveClipboardItem from getBytesInUse to the storage read: the return when
\* more than 95% of the quota is in use, the get otherwise.
SaveRead(w) ==
    /\ w \in 1..Len(saves)
    /\ saves[w].at = "quota"
    /\ \E nearlyFull \in BOOLEAN :
          saves' = [saves EXCEPT ![w] =
                       IF nearlyFull THEN [@ EXCEPT !.at = "full"]
                       ELSE [@ EXCEPT !.at = "read",
                                      !.history = clipboardHistory]]
    /\ UNCHANGED <<clipboardHistory, sidebarHistory, changes, job, timeouts, clock,
                   ledger>>

\* history.some(item => item.text === data.text && item.url === data.url
\*                      && item.timestamp >= todayStart)
isDuplicateToday(history, data, time) ==
    \E i \in 1..Len(history) :
        /\ history[i].text = data.text
        /\ history[i].url = data.url
        /\ history[i].timestamp >= todayStart(time)

\* The item is added without the limit.
AddItem_NoLimit(history, item) == <<item>> \o history

\* history.unshift(item); if (history.length > 1000) history.pop()
AddItem(history, item) ==
    IF Len(history) + 1 > MAX_ITEMS
    THEN <<item>> \o SubSeq(history, 1, Len(history) - 1)
    ELSE <<item>> \o history

\* generateId(): an id no item has had.
NextId == 2001 + Cardinality(ledger.saved)

\* saveClipboardItem behind the storage read: the duplicate return, the new
\* item, the set and its quota error.
SaveWrite(w) ==
    /\ w \in 1..Len(saves)
    /\ saves[w].at = "read"
    /\ LET data == saves[w].data
           history == saves[w].history
           item == Item(NextId, data.text, data.url, data.timestamp)
       IN  IF isDuplicateToday(history, data, clock)
           THEN /\ saves' = [saves EXCEPT ![w].at = "duplicate"]
                /\ UNCHANGED <<clipboardHistory, changes, ledger>>
           ELSE \E quotaExceeded \in BOOLEAN :
                   IF quotaExceeded
                   THEN /\ saves' = [saves EXCEPT ![w].at = "full"]
                        /\ UNCHANGED <<clipboardHistory, changes, ledger>>
                   ELSE /\ saves' = [saves EXCEPT ![w].at = "saved",
                                                  ![w].id = item.id]
                        /\ StorageSet(AddItem(history, item))
                        /\ ledger' = [ledger EXCEPT
                                         !.saved = @ \cup {item.id},
                                         !.savedOn = @ \cup
                                             {<<item.id, todayStart(clock)>>},
                                         !.last = Did("save", item.id)]
    /\ UNCHANGED <<sidebarHistory, job, timeouts, clock>>

\* The sidebar's storage.onChanged listener.
StorageChanged ==
    /\ changes # <<>>
    /\ sidebarHistory' = Head(changes)
    /\ changes' = Tail(changes)
    /\ UNCHANGED <<clipboardHistory, saves, job, timeouts, clock, ledger>>

\* history.filter(item => item.id !== id)
Without(history, id) == SelectSeq(history, LAMBDA item : item.id # id)

\* deleteItem(id, element) of the sidebar: the animation and the timeout.
DeleteClicked(id) ==
    /\ ledger.ops < MaxSidebarOps
    /\ id \in Shown(sidebarHistory)
    /\ id \notin timeouts
    /\ timeouts' = timeouts \cup {id}
    /\ ledger' = [ledger EXCEPT !.ops = @ + 1]
    /\ UNCHANGED <<clipboardHistory, sidebarHistory, changes, saves, job, clock>>

\* The timeout callback of deleteItem.
DeleteTimeout(id) ==
    /\ id \in timeouts
    /\ timeouts' = timeouts \ {id}
    /\ sidebarHistory' = Without(sidebarHistory, id)
    /\ StorageSet(Without(sidebarHistory, id))
    /\ ledger' = [ledger EXCEPT !.deleted = @ \cup {id},
                                !.last = Did("delete", id)]
    /\ UNCHANGED <<saves, job, clock>>

\* The save handler of editItem.
EditSaved(id, newText) ==
    /\ ledger.ops < MaxSidebarOps
    /\ id \in Shown(sidebarHistory)
    /\ LET index == CHOOSE i \in 1..Len(sidebarHistory) :
                        /\ sidebarHistory[i].id = id
                        /\ \A j \in 1..(i - 1) : sidebarHistory[j].id # id
           edited == [sidebarHistory EXCEPT ![index].text = newText]
       IN  /\ sidebarHistory' = edited
           /\ StorageSet(edited)
    /\ ledger' = [ledger EXCEPT !.ops = @ + 1, !.last = Did("edit", id)]
    /\ UNCHANGED <<saves, job, timeouts, clock>>

\* The click handler of clearAllBtn, confirmed.
ClearAll ==
    /\ ledger.ops < MaxSidebarOps
    /\ Len(sidebarHistory) # 0
    /\ sidebarHistory' = <<>>
    /\ StorageSet(<<>>)
    /\ ledger' = [ledger EXCEPT !.ops = @ + 1, !.last = Did("clear", 0)]
    /\ UNCHANGED <<saves, job, timeouts, clock>>

\* The file is an array, or an object with a data array, and every item has
\* an id, a text and a timestamp.
FileAccepted(file) ==
    /\ file.shape \in {"array", "object"}
    /\ \A i \in 1..Len(file.data) :
          /\ file.data[i].id # 0
          /\ file.data[i].text # ""
          /\ file.data[i].timestamp # 0

\* importData(file) up to the storage read; a file that is not accepted
\* ends it in the catch.
ImportRead(file) ==
    /\ ledger.ops < MaxSidebarOps
    /\ job = NoJob
    /\ IF FileAccepted(file)
       THEN /\ job' = [kind |-> "import", data |-> file.data,
                       existing |-> clipboardHistory, cutoff |-> 0]
            /\ ledger' = [ledger EXCEPT !.ops = @ + 1]
       ELSE /\ job' = job
            /\ ledger' = [ledger EXCEPT !.ops = @ + 1,
                                        !.last = Did("import failed", 0)]
    /\ UNCHANGED <<clipboardHistory, sidebarHistory, changes, saves, timeouts, clock>>

\* The timestamps of the items.
Stamps(items) == {items[i].timestamp : i \in 1..Len(items)}

\* The items in descending timestamps; items of one timestamp keep their
\* order.
RECURSIVE Descending(_, _)
Descending(items, stamps) ==
    IF stamps = {} THEN <<>>
    ELSE LET t == CHOOSE x \in stamps : \A y \in stamps : y <= x
         IN  SelectSeq(items, LAMBDA item : item.timestamp = t)
                \o Descending(items, stamps \ {t})

\* sort((a, b) => b.timestamp - a.timestamp): descending, stable.
SortByTimestamp(items) == Descending(items, Stamps(items))

\* A merge in which the items of the file replace those of the history.
mergedHistory_ImportedWins(dataToImport, existingHistory) ==
    LET importedIds == Ids(dataToImport)
        keptItems == SelectSeq(existingHistory, LAMBDA item : item.id \notin importedIds)
        sorted == SortByTimestamp(dataToImport \o keptItems)
    IN  SubSeq(sorted, 1, Min2(Len(sorted), MAX_ITEMS))

\* The merge of importData: the items of the file whose id the history does
\* not hold, in front of the history, sorted, the first 1000.
mergedHistory(dataToImport, existingHistory) ==
    LET existingIds == Ids(existingHistory)
        newItems == SelectSeq(dataToImport, LAMBDA item : item.id \notin existingIds)
        sorted == SortByTimestamp(newItems \o existingHistory)
    IN  SubSeq(sorted, 1, Min2(Len(sorted), MAX_ITEMS))

\* importData behind the storage read.
ImportWrite ==
    /\ job.kind = "import"
    /\ LET merged == mergedHistory(job.data, job.existing)
       IN  /\ StorageSet(merged)
           /\ sidebarHistory' = merged
    /\ job' = NoJob
    /\ ledger' = [ledger EXCEPT !.last = Did("import", 0)]
    /\ UNCHANGED <<saves, timeouts, clock>>

\* cleanupExpiredData up to the storage read.
CleanupRead ==
    /\ ledger.ops < MaxSidebarOps
    /\ job = NoJob
    /\ job' = [kind |-> "cleanup", data |-> <<>>, existing |-> clipboardHistory,
               cutoff |-> clock - cleanupDays * TicksPerDay]
    /\ ledger' = [ledger EXCEPT !.ops = @ + 1]
    /\ UNCHANGED <<clipboardHistory, sidebarHistory, changes, saves, timeouts, clock>>

\* cleanupExpiredData behind the storage read.
CleanupWrite ==
    /\ job.kind = "cleanup"
    /\ LET filtered == SelectSeq(job.existing,
                                 LAMBDA item : item.timestamp >= job.cutoff)
       IN  IF Len(job.existing) - Len(filtered) > 0
           THEN /\ StorageSet(filtered)
                /\ sidebarHistory' = filtered
                /\ ledger' = [ledger EXCEPT !.last = Did("cleanup", 0)]
           ELSE UNCHANGED <<clipboardHistory, changes, sidebarHistory, ledger>>
    /\ job' = NoJob
    /\ UNCHANGED <<saves, timeouts, clock>>

StoreNext ==
    \/ Tick /\ UNCHANGED <<normVars, codecVars, pageVars, scoreVars, captureVars>>
    \/ CopyDetectedReceived /\ UNCHANGED <<normVars, codecVars, pageVars, scoreVars, captureVars>>
    \/ \E w \in 1..MaxSaves : SaveRead(w) /\ UNCHANGED <<normVars, codecVars, pageVars, scoreVars, captureVars>>
    \/ \E w \in 1..MaxSaves : SaveWrite(w) /\ UNCHANGED <<normVars, codecVars, pageVars, scoreVars, captureVars>>
    \/ StorageChanged /\ UNCHANGED <<normVars, codecVars, pageVars, scoreVars, captureVars>>
    \/ \E id \in Shown(sidebarHistory) : DeleteClicked(id) /\ UNCHANGED <<normVars, codecVars, pageVars, scoreVars, captureVars>>
    \/ \E id \in timeouts : DeleteTimeout(id) /\ UNCHANGED <<normVars, codecVars, pageVars, scoreVars, captureVars>>
    \/ \E id \in Shown(sidebarHistory), text \in EditedTexts : EditSaved(id, text) /\ UNCHANGED <<normVars, codecVars, pageVars, scoreVars, captureVars>>
    \/ ClearAll /\ UNCHANGED <<normVars, codecVars, pageVars, scoreVars, captureVars>>
    \/ \E file \in ImportFiles : ImportRead(file) /\ UNCHANGED <<normVars, codecVars, pageVars, scoreVars, captureVars>>
    \/ ImportWrite /\ UNCHANGED <<normVars, codecVars, pageVars, scoreVars, captureVars>>
    \/ CleanupRead /\ UNCHANGED <<normVars, codecVars, pageVars, scoreVars, captureVars>>
    \/ CleanupWrite /\ UNCHANGED <<normVars, codecVars, pageVars, scoreVars, captureVars>>

-----------------------------------------------------------------------------
(* Specifications: one per harness; the variables of the other harnesses   *)
(* rest at their idle values                                               *)

NormIdle == nIn = <<>> /\ nText = <<>> /\ nApplied = 0

CodecIdle ==
    /\ xDoc = Element(0, "BODY", "", "", <<>>)
    /\ xElem = -1 /\ xAddr = <<>> /\ xFound = -1 /\ xStage = "idle"

PageIdle ==
    /\ page = 0 /\ document = <<>> /\ scrollHeight = 0
    /\ calls = <<>> /\ pc = <<>> /\ timers = <<>> /\ marks = <<>>

ScoreIdle ==
    sDoc = <<>> /\ sIndex = 0 /\ sInfo = <<>> /\ sBase = 0 /\ sScore = 0

CaptureIdle == cIn = <<>> /\ cPc = "idle" /\ cLocal = <<>> /\ cSent = <<>>

StoreIdle ==
    /\ clipboardHistory = <<>> /\ sidebarHistory = <<>> /\ changes = <<>>
    /\ saves = <<>> /\ job = <<>> /\ timeouts = {} /\ clock = 0 /\ ledger = <<>>

InitNorm == NormInit /\ CodecIdle /\ PageIdle /\ ScoreIdle /\ CaptureIdle /\ StoreIdle
SpecNorm == InitNorm /\ [][NormNext]_vars

InitNormEq == NormEqInit /\ CodecIdle /\ PageIdle /\ ScoreIdle /\ CaptureIdle /\ StoreIdle
SpecNormEq == InitNormEq /\ [][NormEqNext]_vars

InitCodec == CodecInit /\ NormIdle /\ PageIdle /\ ScoreIdle /\ CaptureIdle /\ StoreIdle
SpecCodec == InitCodec /\ [][CodecNext]_vars

InitScore == ScoreInit /\ NormIdle /\ CodecIdle /\ PageIdle /\ CaptureIdle /\ StoreIdle
SpecScore == InitScore /\ [][ScoreNext]_vars

InitCapture == CaptureInit /\ NormIdle /\ CodecIdle /\ PageIdle /\ ScoreIdle /\ StoreIdle
SpecCapture == InitCapture /\ [][CaptureNext]_vars

InitStore == StoreInit /\ NormIdle /\ CodecIdle /\ PageIdle /\ ScoreIdle /\ CaptureIdle
SpecStore == InitStore /\ [][StoreNext]_vars

Init == PageInit /\ NormIdle /\ CodecIdle /\ ScoreIdle /\ CaptureIdle /\ StoreIdle
Next ==
    \/ Request /\ UNCHANGED <<normVars, codecVars, scoreVars, captureVars, storeVars>>
    \/ ChangeHeight /\ UNCHANGED <<normVars, codecVars, scoreVars, captureVars, storeVars>>
    \/ Navigate /\ UNCHANGED <<normVars, codecVars, scoreVars, captureVars, storeVars>>
    \/ \E c \in 1..MaxRequests : CheckStable(c) /\ UNCHANGED <<normVars, codecVars, scoreVars, captureVars, storeVars>>
    \/ \E c \in 1..MaxRequests : Method1(c) /\ UNCHANGED <<normVars, codecVars, scoreVars, captureVars, storeVars>>
    \/ \E c \in 1..MaxRequests : Method2(c) /\ UNCHANGED <<normVars, codecVars, scoreVars, captureVars, storeVars>>
    \/ \E c \in 1..MaxRequests : Method3(c) /\ UNCHANGED <<normVars, codecVars, scoreVars, captureVars, storeVars>>
    \/ \E c \in 1..MaxRequests : Method4(c) /\ UNCHANGED <<normVars, codecVars, scoreVars, captureVars, storeVars>>
    \/ \E c \in 1..MaxRequests : Method5(c) /\ UNCHANGED <<normVars, codecVars, scoreVars, captureVars, storeVars>>
    \/ \E c \in 1..MaxRequests : Method6(c) /\ UNCHANGED <<normVars, codecVars, scoreVars, captureVars, storeVars>>
    \/ \E c \in 1..MaxRequests : Method7(c) /\ UNCHANGED <<normVars, codecVars, scoreVars, captureVars, storeVars>>
    \/ \E c \in 1..MaxRequests : Finish(c) /\ UNCHANGED <<normVars, codecVars, scoreVars, captureVars, storeVars>>
    \/ \E m \in 1..Len(marks) : FadeMark(m) /\ UNCHANGED <<normVars, codecVars, scoreVars, captureVars, storeVars>>
    \/ \E m \in 1..Len(marks) : UnwrapMark(m) /\ UNCHANGED <<normVars, codecVars, scoreVars, captureVars, storeVars>>
Spec == Init /\ [][Next]_vars

\* Fairness is stated on what a step does outside the document, so that
\* whether a step is possible is decided without computing a new document.
controlVars == <<page, scrollHeight, calls, pc, timers, marks>>

\* The timer due next fires.  Under Next the steps that do this are those of
\* CheckStable, FadeMark and UnwrapMark.
TimerFires ==
    \/ \E c \in 1..MaxRequests : CheckStable(c)
    \/ \E m \in 1..Len(marks) : FadeMark(m) \/ UnwrapTimer(m)

\* The call in the cascade moves to its next statement, and from the last
\* one out of the cascade.  Under Next the steps that do this are those of
\* Method1..Method7 and Finish, and one is possible exactly when a call is
\* in the cascade.
Advance ==
    \E c \in 1..Len(pc) :
       /\ pc[c].at = "running"
       /\ pc' = [pc EXCEPT ![c] = IF pc[c].step = 8 THEN At("done", 8)
                                  ELSE At("running", pc[c].step + 1)]

\* Timers fire and JavaScript runs to completion; messages, layout changes
\* and navigation may or may not come.
Fairness ==
    /\ WF_controlVars(TimerFires)
    /\ WF_pc(Advance)
FairSpec == Init /\ [][Next]_vars /\ Fairness

-----------------------------------------------------------------------------
(* Claims about the normaliser                                             *)

\* C4: normalizeText is idempotent: normalising an already normalised string
\* changes nothing, normalize(normalize(s)) = normalize(s).
C4_NormalizeIdempotent ==
    nApplied = 1 => normalizeText(nText) = nText

\* C5: two strings that differ only in letter case, in the length or kind of
\* their white space runs, or in leading/trailing white space have the same
\* normalised form.
C5_CaseAndWhiteSpaceInsensitive ==
    normalizeText(nText) = normalizeText(nIn)

C5_Witness ==
    /\ nIn = <<"A", "U3000", "a">>
    /\ nText = <<" ", "a", " ", "A">>

-----------------------------------------------------------------------------
(* Claims about the address codec                                          *)

EncodedElement == NodeAt(xDoc, PathOfUid(xDoc, xElem))

\* The id the address starts from is carried by exactly one element and
\* holds no double quote.
AddressRootUnambiguous ==
    \/ xAddr[1].axis = "body"
    \/ /\ xAddr[1].axis = "id"
       /\ XPathWellFormed(xAddr)
       /\ Cardinality({i \in 1..Len(ElementPaths(xDoc)) :
              Chars(NodeAt(xDoc, ElementPaths(xDoc)[i]).id) = xAddr[1].name}) = 1

-----------------------------------------------------------------------------
(* Claims about the relocation cascade                                     *)

Strategies == 1..7
Range(seq) == {seq[i] : i \in 1..Len(seq)}

\* C1: in one highlightText call the strategies are invoked in the order
\* 1, 2, ..., 7, and once a strategy has returned success no strategy is
\* invoked any more; when strategy 1 succeeds, none of 2-7 is invoked.
C1_FixedOrderStopAtSuccess ==
    [][\A c \in 1..Len(calls) :
          /\ calls[c].highlighted => calls'[c].invoked = calls[c].invoked
          /\ calls'[c].invoked # calls[c].invoked =>
                \E k \in Strategies :
                   /\ calls'[c].invoked = Append(calls[c].invoked, k)
                   /\ \A j \in Range(calls[c].invoked) : j < k]_vars

\* A finished call that strategy 1 settled although the gate of strategy 2
\* (five characters or more) was open.
C1_Witness ==
    \E c \in 1..Len(calls) :
       /\ pc[c].at = "done"
       /\ calls[c].highlighted
       /\ calls[c].invoked = <<1>>
       /\ Len(calls[c].info.originalText) >= 5

\* C2: a call in which all seven strategies declined has invoked the
\* fallback (scroll to top) exactly once and created no mark; a call in which
\* a strategy reported success never invokes the fallback.
C2_FallbackIffAllDecline ==
    \A c \in 1..Len(calls) :
       /\ (pc[c].at = "done" /\ ~ calls[c].highlighted) =>
              /\ calls[c].fallbacks = 1
              /\ calls[c].made = 0
              /\ \A m \in 1..Len(marks) : marks[m].call # c
       /\ calls[c].highlighted => calls[c].fallbacks = 0

\* A finished call in which each of the seven strategies was invoked and
\* declined.
Resolved(c) ==
    calls[c].highlighted /\ calls[c].made >= 1 /\ calls[c].fallbacks = 0
Exhausted(c) == ~ calls[c].highlighted /\ calls[c].fallbacks = 1

-----------------------------------------------------------------------------
(* Claims about the single strategies                                      *)

\* The text nodes of the addressed element that hold the original text of
\* the anchor at offset .. offset + length.
CapturedNodes(doc, info) ==
    LET element == getElementByXPath(doc, info.xpath)
        nodes == IF element = NullPath THEN <<>> ELSE TextWalker(doc, element)
    IN  {nodes[i] : i \in {j \in 1..Len(nodes) :
            /\ info.offset >= 0
            /\ info.length > 0
            /\ info.offset + info.length <= Len(DataAt(doc, nodes[j]))
            /\ Len(Trim(info.originalText)) > 0
            /\ SubSeq(DataAt(doc, nodes[j]), info.offset + 1,
                      info.offset + info.length) = info.originalText}}

\* C7: when the address of the anchor decodes to an element a text node of
\* which holds the captured text at offset .. offset + length, and
\* originalText is that slice, strategy 1 succeeds, the mark it inserts wraps
\* exactly that slice, and no other strategy has run.
C7_AddressedSliceHighlighted ==
    [][\A c \in 1..Len(pc) :
          (/\ pc[c] = At("running", 1)
           /\ pc'[c] = At("running", 2)
           /\ CapturedNodes(document, calls[c].info) # {})
          => /\ calls'[c].highlighted
             /\ calls'[c].invoked = <<1>>
             /\ \E node \in CapturedNodes(document, calls[c].info) :
                   document' = surroundContents(document, node,
                                   calls[c].info.offset,
                                   calls[c].info.offset + calls[c].info.length,
                                   NextMark)]_vars

\* The places <<text node, raw index>> where a text node holds the text.
Occurrences(doc, text) ==
    LET nodes == TextNodes(doc)
    IN  UNION {{<<nodes[i], k>> : k \in {j \in 0..Len(DataAt(doc, nodes[i])) :
                                          MatchesAt(DataAt(doc, nodes[i]), text, j)}}
               : i \in 1..Len(nodes)}

\* The occurrences the text before of the anchor immediately precedes, in a
\* parent that carries the anchor's tag and class.
InContext(doc, info) ==
    {o \in Occurrences(doc, info.originalText) :
        LET parent == NodeAt(doc, ParentPath(o[1]))
        IN  /\ EndsWith(Substring(DataAt(doc, o[1]), 0, o[2]), info.textBefore)
            /\ parent.tag = info.parentTagName
            /\ info.parentClassName # ""
            /\ Includes(Chars(parent.cls), Chars(info.parentClassName))}

\* C8: when the search text stands in two text nodes and the text before of
\* the anchor immediately precedes only one occurrence, the candidate
\* strategy 2 ranks first is that occurrence, it scores at least 55, and the
\* other candidate scores less.
C8_ContextOccurrenceScores55 ==
    \A c \in 1..Len(pc) :
       LET info == calls[c].info
           occ == Occurrences(document, info.originalText)
           matches == findAllMatchesWithScoring(document, info.originalText, info)
       IN  (/\ pc[c] = At("running", 2)
            /\ ~ calls[c].highlighted
            /\ Len(info.originalText) >= 5
            /\ Len(info.textBefore) > 0
            /\ Cardinality(occ) = 2
            /\ Cardinality({o[1] : o \in occ}) = 2
            /\ Cardinality(InContext(document, info)) = 1)
           => /\ Len(matches) = 2
              /\ \E o \in InContext(document, info) :
                    matches[1].path = o[1] /\ matches[1].index = o[2]
              /\ matches[1].score >= 55
              /\ matches[2].score < matches[1].score

\* Whether some text node's normal form holds the prefix.
OccursSomewhere(doc, prefix) == FirstNodeContaining(doc, prefix) # 0

\* The longest applicable tier whose prefix of the line occurs in the
\* document, 0 when there is none.
LongestOccurringTier(doc, firstLine) ==
    LET hits == {t \in 1..Len(prefixLengths) :
                   /\ TierApplies(firstLine, prefixLengths[t])
                   /\ OccursSomewhere(doc,
                          normalizeText(Substring(firstLine, 0, prefixLengths[t])))}
    IN  IF hits = {} THEN 0 ELSE prefixLengths[MinOf(hits)]

\* C9: strategy 3 succeeds at the longest applicable tier (20, 10, 5) whose
\* normalised prefix of the first non-blank line occurs in a text node, and
\* declines when no applicable tier's prefix occurs: a shorter tier is used
\* only when every longer applicable tier occurs nowhere.
C9_LongestOccurringTierWins ==
    [][\A c \in 1..Len(pc) :
          (/\ pc[c] = At("running", 3)
           /\ pc'[c] = At("running", 4)
           /\ calls'[c].invoked # calls[c].invoked)
          => LET expected == LongestOccurringTier(document,
                                 firstLineOf(calls[c].info.originalText))
             IN  /\ calls'[c].tier = expected
                 /\ calls'[c].highlighted = (expected # 0)]_vars

\* C12: strategy 2 highlights only a candidate whose score reaches the
\* threshold, 40 when the normalised search text has fewer than 15 characters
\* and 20 otherwise; it declines, the document untouched, when the normalised
\* search text has fewer than 5 characters.
C12_ThresholdRespected ==
    [][\A c \in 1..Len(pc) :
          (/\ pc[c] = At("running", 2)
           /\ pc'[c] = At("running", 3)
           /\ calls'[c].invoked # calls[c].invoked)
          => LET info == calls[c].info
                 normalizedSearch == normalizeText(info.originalText)
                 threshold == IF Len(normalizedSearch) < 15 THEN 40 ELSE 20
                 matches == findAllMatchesWithScoring(document,
                                info.originalText, info)
             IN  /\ Len(normalizedSearch) < 5 => ~ calls'[c].highlighted
                 /\ calls'[c].highlighted =>
                        \E i \in 1..Len(matches) :
                           /\ matches[i].score >= threshold
                           /\ document' = wrapMatch(document, matches[i],
                                              info.originalText, NextMark)
                 /\ ~ calls'[c].highlighted =>
                        /\ document' = document
                        /\ marks' = marks]_vars

\* Strategy 2 has highlighted a text of fewer than 15 characters.
C12_Witness ==
    \E c \in 1..Len(calls) :
       /\ calls[c].invoked = <<1, 2>>
       /\ calls[c].highlighted
       /\ Len(normalizeText(calls[c].info.originalText)) \in 5..14

\* C13: when a strategy reports success, the mark it made is attached to the
\* document and holds text that is not only white space; when it reports
\* failure no mark of its making is left and the text of the document is as
\* before.
C13_SuccessMeansVisibleMark ==
    [][\A c \in 1..Len(pc) :
          (/\ pc[c].at = "running"
           /\ pc'[c] = At("running", pc[c].step + 1)
           /\ calls'[c].invoked # calls[c].invoked)
          => LET markPath == PathOfUid(document', MarkUid(NextMark))
             IN  /\ calls'[c].highlighted =>
                        /\ markPath # NullPath
                        /\ Len(Trim(textContent(NodeAt(document', markPath)))) > 0
                 /\ ~ calls'[c].highlighted =>
                        /\ markPath = NullPath
                        /\ textContent(document') = textContent(document)]_vars

\* C11: every score calculateContextScore produces lies in 0..100 and is the
\* sum of a before-context signal (0, 20 or 35), an after-context signal (0,
\* 20 or 35), a structural signal (0, 8, 12 or 20) and the base of 10: for
\* the anchor of every call, every text node of the body and every match
\* position in it.
C11_ScoreIsBoundedSum ==
    \A c \in 1..Len(calls) :
       \A i \in 1..Len(TextNodes(document)) :
          \A k \in 0..Len(DataAt(document, TextNodes(document)[i])) :
             LET score == calculateContextScore(document, TextNodes(document)[i],
                                                k, calls[c].info)
             IN  /\ score \in 0..100
                 /\ \E before \in {0, 20, 35}, after \in {0, 20, 35},
                       structural \in {0, 8, 12, 20} :
                       score = before + after + structural + 10

\* Strategy 2 is about to score two candidates: one with a partial
\* fingerprint and both structural signals, one with the base only.
C11_Witness ==
    \E c \in 1..Len(calls) :
       /\ pc[c] = At("running", 2)
       /\ ~ calls[c].highlighted
       /\ LET matches == findAllMatchesWithScoring(document,
                              calls[c].info.originalText, calls[c].info)
          IN  /\ Len(matches) = 2
              /\ matches[1].score = 20 + 12 + 8 + 10
              /\ matches[2].score = 10

-----------------------------------------------------------------------------
(* Claims about the marks                                                  *)

\* The mark elements in the document.
MarksIn(doc) ==
    {i \in 1..Len(ElementPaths(doc)) : NodeAt(doc, ElementPaths(doc)[i]).tag = "MARK"}

\* No call waits or runs and no timer is pending.
Quiescent ==
    /\ page # 0
    /\ timers = <<>>
    /\ \A c \in 1..Len(pc) : pc[c].at = "done"

C15_Reversible ==
    Quiescent =>
        /\ MarksIn(document) = {}
        /\ textContent(document) = textContent(Pages[page])

\* C16: one call inserts at most one mark element into the document, the
\* marks of strategies that went on to report failure included.
C16_AtMostOneMarkPerCall ==
    \A c \in 1..Len(calls) :
       /\ calls[c].made <= 1
       /\ Cardinality({m \in 1..Len(marks) : marks[m].call = c}) <= 1

-----------------------------------------------------------------------------
(* Claims about the scorer                                                 *)

\* C10: a candidate scored with an anchor whose text before (or text after)
\* is the text that immediately precedes (or follows) the match scores
\* strictly higher than the same candidate, same node, position and
\* structural signals, scored with that fingerprint absent.
C10_FingerprintRaisesScore ==
    sScore # 0 - 1 => sScore > sBase

\* A candidate behind white space and a zero-width character, scored with
\* both fingerprints.
C10_Witness ==
    /\ sScore # 0 - 1
    /\ Len(sInfo.textBefore) > 0
    /\ Len(sInfo.textAfter) > 0
    /\ \E i \in 1..Len(sInfo.textBefore) : sInfo.textBefore[i] = "U200B"
    /\ sInfo.parentTagName = "P"

-----------------------------------------------------------------------------
(* Claims about the capture                                                *)

\* The selection the anchor was extracted from raises in a step of
\* getSelectionContext.
ExtractionFailed ==
    /\ cIn.selection.rangeCount = 1
    /\ ExtractionThrows(cIn.doc, cIn.selection.range)

\* C17: anchor extraction never raises to the copy listener; when a step of
\* getSelectionContext fails, the listener still sends its record (the text,
\* the url, the title, the timestamp) with a null selectionInfo.
C17_FailedExtractionStillSends ==
    /\ cLocal.outcome # "raised"
    /\ (cPc = "done" /\ cLocal.built = 1 /\ ExtractionFailed) =>
           cSent = <<CopyDetected(cLocal.text, NullAnchor)>>

\* A copy inside the text element of an SVG went through every gate.
C17_Witness ==
    /\ cPc = "done"
    /\ cLocal.built = 1
    /\ ExtractionFailed
    /\ Len(cSent) = 1
    /\ cSent[1].data.selectionInfo = NullAnchor
    /\ cSent[1].data.text = Chars("axis")

\* The flattened text of the element the anchor of the selection addresses.
AddressedText ==
    textContent(NodeAt(cIn.doc,
        ParentElementOf(cIn.doc, commonAncestorContainer(cIn.selection.range))))

\* C18: every anchor sent that is not null has offset + length at most the
\* length of the flattened text of the container it addresses.
C18_AnchorWithinContainer ==
    \A i \in 1..Len(cSent) :
        LET anchor == cSent[i].data.selectionInfo
        IN  ~ anchor.null => anchor.offset + anchor.length <= Len(AddressedText)

\* C19: the text of a capture record is never longer than 10,000 characters.
C19_TextAtMostLimit ==
    \A i \in 1..Len(cSent) : Len(cSent[i].data.text) <= MaxTextLength

\* The copy event is one the gates are to suppress: incognito mode is
\* enabled in the stored settings, or the hostname is, or lies below, a
\* domain of the stored blacklist, or the built-in check matches.
Gated ==
    \/ cIn.stored.set /\ cIn.stored.value.incognitoMode
    \/ cIn.stored.set /\ isInUserBlacklist(cIn.hostname, cIn.stored.value.blacklist)
    \/ shouldSkipRecording(LimitText(cLocal.copiedText), cIn.hostname, cIn.nearPassword)

\* C20: for a gated copy event no anchor is built and no COPY_DETECTED
\* message is sent.
C20_GatedMeansNothingSent ==
    (cPc = "done" /\ Gated) => (cLocal.built = 0 /\ cSent = <<>>)

-----------------------------------------------------------------------------
(* Claims about decoding and strategy 1                                    *)

\* The element at path e is one the address describes, read from its last
\* step back to its first.
RECURSIVE Answers(_, _, _)
Answers(doc, e, xpath) ==
    LET last == xpath[Len(xpath)]
        node == NodeAt(doc, e)
    IN  IF last.axis = "body" THEN Len(xpath) = 1 /\ e = BodyPath(doc)
        ELSE IF last.axis = "id"
        THEN Len(xpath) = 1 /\ Chars(node.id) = last.name
        ELSE /\ Len(xpath) > 1
             /\ e # <<>>
             /\ toLowerCase(Chars(node.tag)) = last.name
             /\ LET parent == NodeAt(doc, ParentPath(e))
                    k == e[Len(e)]
                IN  Cardinality({j \in 1..(k - 1) :
                        /\ parent.kids[j].kind = "E"
                        /\ parent.kids[j].tag = node.tag}) + 1 = last.index
             /\ Answers(doc, ParentPath(e), SubSeq(xpath, 1, Len(xpath) - 1))

\* The address matches no element: it is malformed (an id with a double
\* quote), or no element answers it (an unknown id, an ordinal out of range).
NoElementMatches(doc, xpath) ==
    LET elements == ElementPaths(doc)
    IN  \/ \E i \in 1..Len(xpath) :
              xpath[i].axis = "id" /\ \E j \in 1..Len(xpath[i].name) :
                                          xpath[i].name[j] = "\""
        \/ \A i \in 1..Len(elements) : ~ Answers(doc, elements[i], xpath)

\* C21: for an address that matches no element strategy 1 declines, leaving
\* the document as it was, and the cascade goes on to strategy 2.
C21_NotFoundDeclines ==
    [][\A c \in 1..Len(calls) :
          (/\ pc[c] = At("running", 1)
           /\ pc'[c] # pc[c]
           /\ calls[c].info.xpath # <<>>
           /\ NoElementMatches(document, calls[c].info.xpath))
          => /\ pc'[c] = At("running", 2)
             /\ calls'[c].invoked = <<1>>
             /\ ~ calls'[c].highlighted
             /\ calls'[c].made = 0
             /\ document' = document
             /\ marks' = marks]_vars

\* Strategy 2 was invoked after strategy 1 declined for an address whose id
\* makes the expression malformed.
C21_Witness ==
    \E c \in 1..Len(calls) :
        /\ calls[c].info = QuotedIdAnchor
        /\ NoElementMatches(document, calls[c].info.xpath)
        /\ calls[c].invoked = <<1, 2>>
        /\ pc[c] = At("running", 3)

-----------------------------------------------------------------------------
(* Claims about the stabilization wait                                     *)

\* The step is a poll of the wait of call c: no call is in its cascade, the
\* poll timer of c fires, and no message starts another call.
PollOf(c) ==
    /\ pc[c].at = "waiting"
    /\ timers # <<>>
    /\ timers[NextTimer].kind = "poll"
    /\ timers[NextTimer].call = c
    /\ timers' # timers
    /\ ~ Running
    /\ Len(calls') = Len(calls)
    /\ page' # 0

\* C22: the wait resolves at a poll if and only if that poll is the second
\* in a row to find the height unchanged or more than 1500 ms have passed
\* since the wait began; a poll that finds the height changed sets the count
\* of unchanged polls to zero.
C22_ResolvesAtFirstStableOrTimeout ==
    [][\A c \in 1..Len(calls) :
          PollOf(c) =>
             LET same == scrollHeight = calls[c].lastHeight
                 unchanged == IF same THEN calls[c].stableCount + 1 ELSE 0
                 now == calls[c].elapsed + timers[NextTimer].delay
                 resolves == pc'[c] = At("running", 1)
             IN  /\ resolves <=> (unchanged >= 2 \/ now > 1500)
                 /\ ~ resolves =>
                       /\ pc'[c] = pc[c]
                       /\ calls'[c].stableCount = unchanged
                       /\ calls'[c].lastHeight = scrollHeight
                       /\ calls'[c].elapsed = now]_vars

\* A wait whose count of unchanged polls was set back: one unchanged poll
\* counted, later than the first poll.
C22_Witness ==
    \E c \in 1..Len(calls) :
        /\ pc[c].at = "waiting"
        /\ calls[c].stableCount = 1
        /\ calls[c].elapsed > 200

\* The times at which a wait can be found still waiting: before its first
\* poll, and after each of its first nine.
PollTimes == {0} \cup {200 + 150 * k : k \in 0..8}

PollTimersOf(c) ==
    {i \in 1..Len(timers) : timers[i].kind = "poll" /\ timers[i].call = c}

\* C23: the first poll comes 200 ms after the wait began and each later one
\* 150 ms after the one before; a wait is over with its tenth poll at the
\* latest, whatever the heights; once resolved it has no poll pending and
\* never waits again.
C23_BoundedPollsResolveOnce ==
    /\ [](\A c \in 1..Len(calls) :
             IF pc[c].at = "waiting"
             THEN /\ calls[c].elapsed \in PollTimes
                  /\ Cardinality(PollTimersOf(c)) = 1
                  /\ \A i \in PollTimersOf(c) :
                        timers[i].delay = IF calls[c].elapsed = 0 THEN 200 ELSE 150
             ELSE PollTimersOf(c) = {})
    /\ [][\A c \in 1..Len(calls) :
             pc[c].at # "waiting" => pc'[c].at # "waiting"]_vars

\* A wait that ended by the time limit: its last polls did not find the
\* height unchanged twice in a row.
C23_Witness ==
    \E c \in 1..Len(calls) : pc[c] = At("running", 1) /\ calls[c].timedOut

-----------------------------------------------------------------------------
(* Claims about strategy 1                                                 *)

\* Call c takes its step from Method 1 to Method 2 and strategy 1 accepts.
Strategy1Accepts(c) ==
    /\ pc[c] = At("running", 1)
    /\ pc'[c] = At("running", 2)
    /\ calls'[c].invoked = <<1>>
    /\ calls'[c].highlighted

\* The text inside the mark the step inserted: the slice the strategy
\* resolved.
NewMarkText == textContent(NodeAt(document', PathOfUid(document', MarkUid(Len(marks')))))

AgreeOnPrefix(slice, original) ==
    LET a == normalizeText(slice)
        b == normalizeText(original)
        n == Min2(Min2(Len(a), Len(b)), 30)
    IN  SubSeq(a, 1, n) = SubSeq(b, 1, n)

\* C24: whenever strategy 1 accepts with a non-empty originalText, the
\* normalized slice and the normalized originalText agree on their first
\* min(|slice|, |originalText|, 30) characters, whatever the length of the
\* slice.
C24_AcceptedSliceAgrees ==
    [][\A c \in 1..Len(calls) :
          (Strategy1Accepts(c) /\ Len(calls[c].info.originalText) > 0)
          => AgreeOnPrefix(NewMarkText, calls[c].info.originalText)]_vars


\* The anchor of call c addresses an element of the document whose flattened
\* text still holds the original text at the offset of the anchor, behind
\* the end of the element's first text node.
SliceInLaterNode(c) ==
    LET info == calls[c].info
        e == getElementByXPath(document, info.xpath)
    IN  /\ info.xpath # <<>>
        /\ info.offset # Undefined
        /\ e # NullPath
        /\ LET flat == textContent(NodeAt(document, e))
               nodes == TextWalker(document, e)
           IN  /\ Len(nodes) > 1
               /\ info.offset >= Len(DataAt(document, nodes[1]))
               /\ info.offset + info.length <= Len(flat)
               /\ SubSeq(flat, info.offset + 1, info.offset + info.length)
                     = info.originalText

\* The length of the text of the element at e that stands in front of the
\* mark at markPath.
TextInFrontOf(doc, e, markPath) ==
    LET nodes == TextWalker(doc, e)
        F[i \in 0..Len(nodes)] ==
            IF i = 0 THEN 0
            ELSE F[i - 1] + IF Precedes(nodes[i], markPath)
                            THEN Len(DataAt(doc, nodes[i])) ELSE 0
    IN  F[Len(nodes)]

\* C25: when the offset of the anchor falls behind the first text node of
\* the addressed element, the slice strategy 1 resolves starts where the
\* flattened text of the element has that offset.
C25_SliceAtFlattenedOffset ==
    [][\A c \in 1..Len(calls) :
          (/\ pc[c] = At("running", 1)
           /\ pc'[c] = At("running", 2)
           /\ SliceInLaterNode(c))
          => /\ Strategy1Accepts(c)
             /\ TextInFrontOf(document',
                    getElementByXPath(document, calls[c].info.xpath),
                    PathOfUid(document', MarkUid(Len(marks'))))
                  = calls[c].info.offset]_vars

-----------------------------------------------------------------------------
(* Claims about strategy 2                                                 *)

\* The candidates of call c: every occurrence findAllMatchesWithScoring
\* collects, before it sorts them.
CandidatesOf(c) ==
    LET info == calls[c].info
        nodes == TextNodes(document)
    IN  UNION {LET ms == MatchesInNode(document, nodes[i],
                                       normalizeText(info.originalText), info)
               IN  {ms[k] : k \in 1..Len(ms)}
               : i \in 1..Len(nodes)}

\* Candidate a stands in front of candidate b in the document.
Earlier(a, b) ==
    \/ Precedes(a.path, b.path)
    \/ a.path = b.path /\ a.index < b.index

\* Among the candidates with the highest score the earliest in the document.
IsEarliestBest(m, candidates) ==
    \A o \in candidates :
        \/ o.score < m.score
        \/ o.score = m.score /\ (o = m \/ Earlier(m, o))

\* Call c takes its step from Method 2 to Method 3 and strategy 2 accepts.
Strategy2Accepts(c) ==
    /\ pc[c] = At("running", 2)
    /\ pc'[c] = At("running", 3)
    /\ calls'[c].invoked = Append(calls[c].invoked, 2)
    /\ calls'[c].highlighted

\* The mark the step inserted stands in the text node of candidate m at the
\* index of m: the node keeps the text in front of the index and the mark is
\* its next sibling.
MarkedAt(m) ==
    /\ PathOfUid(document', MarkUid(Len(marks')))
          = Append(ParentPath(m.path), m.path[Len(m.path)] + 1)
    /\ Len(DataAt(document', m.path)) = m.index

\* C26: the candidate strategy 2 applies is, among those with the highest
\* score, the earliest in document order and, within one node, the one at
\* the smallest offset.
C26_TiesKeepDocumentOrder ==
    [][\A c \in 1..Len(calls) :
          Strategy2Accepts(c) =>
             \E m \in CandidatesOf(c) :
                 IsEarliestBest(m, CandidatesOf(c)) /\ MarkedAt(m)]_vars

\* Strategy 2 accepted where two candidates of one node share the highest
\* score and a third, in front of them, scores less.
C26_Witness ==
    \E c \in 1..Len(calls) :
        /\ calls[c].info = TwinClassAnchor
        /\ calls[c].invoked = <<1, 2>>
        /\ calls[c].highlighted
        /\ pc[c] = At("running", 3)
        /\ textContent(NodeAt(document, <<2, 2>>)) = Chars("order #12345 confirmed")

-----------------------------------------------------------------------------
(* Claims about findActualIndex and strategy 4                             *)

\* The search terms strategies 2 and 3 hand to findActualIndex for call c:
\* the normalized original text and its normalized prefixes.
SearchTermsOf(c) ==
    LET text == calls[c].info.originalText
    IN  {t \in {normalizeText(text)}
                  \cup {normalizeText(Substring(text, 0, prefixLengths[i])) :
                           i \in 1..Len(prefixLengths)} :
            Len(t) > 0}

\* Position a of the raw text is where an occurrence of the term begins: the
\* character there is the first of the term, and the raw text from there on
\* normalizes to a text that starts with the term.
BeginsAt(raw, term, a) ==
    /\ a >= 0
    /\ a < Len(raw)
    /\ normalizeText(<<raw[a + 1]>>) = <<term[1]>>
    /\ StartsWith(normalizeText(SubstringFrom(raw, a)), term)

\* C28: for every text node and every search term that occurs in the
\* normalized text of the node at index k, findActualIndex returns the
\* position of the raw text at which that occurrence begins.
C28_ActualIndexIsOccurrenceStart ==
    \A c \in 1..Len(calls) : \A t \in SearchTermsOf(c) :
        \A i \in 1..Len(TextNodes(document)) :
            LET raw == DataAt(document, TextNodes(document)[i])
                normalizedNode == normalizeText(raw)
            IN  \A k \in 0..(Len(normalizedNode) - Len(t)) :
                    MatchesAt(normalizedNode, t, k)
                    => BeginsAt(raw, t, findActualIndex(raw, t, k))


\* The index of strategy 4: the text nodes of the body that hold a character
\* other than white space, in document order.
IndexEntries ==
    LET nodes == TextNodes(document)
        F[i \in 0..Len(nodes)] ==
            IF i = 0 THEN <<>>
            ELSE IF \E j \in 1..Len(DataAt(document, nodes[i])) :
                       DataAt(document, nodes[i])[j] \notin JsWhiteSpace
                 THEN Append(F[i - 1], nodes[i])
                 ELSE F[i - 1]
    IN  F[Len(nodes)]

\* The texts of entries i .. min(i + 14, last), each followed by a space,
\* normalized.
JoinedFrom(i) ==
    LET entries == IndexEntries
        last == IF i + 14 < Len(entries) THEN i + 14 ELSE Len(entries)
        F[j \in (i - 1)..last] ==
            IF j = i - 1 THEN <<>>
            ELSE F[j - 1] \o DataAt(document, entries[j]) \o <<" ">>
    IN  normalizeText(F[last])

\* The normalized first 20 characters of the original text of call c.
WindowTermOf(c) == normalizeText(SubSeq(calls[c].info.originalText, 1,
                       IF Len(calls[c].info.originalText) < 20
                       THEN Len(calls[c].info.originalText) ELSE 20))

\* i is the smallest window start whose joined text contains the term.
FirstWindow(c, i) ==
    /\ i \in 1..Len(IndexEntries)
    /\ Includes(JoinedFrom(i), WindowTermOf(c))
    /\ \A j \in 1..(i - 1) : ~ Includes(JoinedFrom(j), WindowTermOf(c))

\* Call c takes its step from Method 4 to Method 5 and strategy 4 accepts.
Strategy4Accepts(c) ==
    /\ pc[c] = At("running", 4)
    /\ pc'[c] = At("running", 5)
    /\ calls'[c].invoked = Append(calls[c].invoked, 4)
    /\ calls'[c].highlighted

\* The mark the step inserted holds the whole text of the text node at q.
WholeNodeMarked(q) ==
    /\ PathOfUid(document', MarkUid(Len(marks'))) = Append(ParentPath(q), q[Len(q)] + 1)
    /\ Len(DataAt(document', q)) = 0
    /\ NewMarkText = DataAt(document, q)

\* C29: when strategy 4 succeeds, the node it highlights is entry i of the
\* index for the smallest i whose window contains the normalized first 20
\* characters of the original text, and the whole content of that node is
\* highlighted.
C29_FirstWindowNodeHighlighted ==
    [][\A c \in 1..Len(calls) :
          Strategy4Accepts(c) =>
             \E i \in 1..Len(IndexEntries) :
                 FirstWindow(c, i) /\ WholeNodeMarked(IndexEntries[i])]_vars

\* Strategy 4 accepted for the sentence that spans the inline elements, in
\* the first of two windows that contain it.
C29_Witness ==
    \E c \in 1..Len(calls) :
        /\ calls[c].info = SpanningAnchor
        /\ pc[c] = At("running", 5)
        /\ calls[c].highlighted
        /\ calls[c].invoked = <<2, 3, 4>>
        /\ \E m \in MarksIn(document) :
              textContent(NodeAt(document, ElementPaths(document)[m]))
                 = Chars("hello there")

\* C30: whenever strategy 4 succeeds, the match found in the window begins
\* inside the node that is highlighted.
C30_MatchOverlapsHighlightedNode ==
    [][\A c \in 1..Len(calls) :
          Strategy4Accepts(c) =>
             \E i \in 1..Len(IndexEntries) :
                 /\ FirstWindow(c, i)
                 /\ \E p \in 0..(Len(normalizeText(DataAt(document, IndexEntries[i]))) - 1) :
                       MatchesAt(JoinedFrom(i), WindowTermOf(c), p)]_vars

-----------------------------------------------------------------------------
(* Claims about strategies 5 and 7                                         *)

\* The snippet strategy 5 searches for call c: the 40 characters (or fewer,
\* at the end) that begin one fifth into the original text, normalized.
SnippetOf(c) ==
    LET text == calls[c].info.originalText
        from == Len(text) \div 5
        to == IF from + 40 < Len(text) THEN from + 40 ELSE Len(text)
    IN  normalizeText(SubSeq(text, from + 1, to))

\* The normalized text of text node i of the body, in document order.
NormalizedNode(i) == normalizeText(DataAt(document, TextNodes(document)[i]))

\* The similarity of text node i to the snippet of call c, as a fraction.
SimilarityOf(c, i) == calculateSimilarity(NormalizedNode(i), SnippetOf(c))

\* The nodes strategy 5 scores for call c: not shorter than the snippet.
ScoredNodes(c) ==
    {i \in 1..Len(TextNodes(document)) :
        Len(NormalizedNode(i)) >= Len(SnippetOf(c))}

\* Call c takes its step from Method 5 to Method 6 and strategy 5 accepts.
Strategy5Accepts(c) ==
    /\ pc[c] = At("running", 5)
    /\ pc'[c] = At("running", 6)
    /\ calls'[c].invoked = Append(calls[c].invoked, 5)
    /\ calls'[c].highlighted

\* C31: every similarity strategy 5 computes is between 0 and 1, and is 1
\* when the node contains the snippet; when strategy 5 succeeds, the node it
\* highlights is not shorter than the snippet, its similarity is strictly
\* greater than 0.7, no scored node has a greater similarity and no earlier
\* scored node has an equal one, and the whole node is highlighted.
C31_FuzzyAcceptsFirstBestAbove70 ==
    /\ [](\A c \in 1..Len(calls) :
             Len(SnippetOf(c)) >= 15 =>
                \A i \in ScoredNodes(c) :
                    /\ SimilarityOf(c, i).den > 0
                    /\ SimilarityOf(c, i).num >= 0
                    /\ SimilarityOf(c, i).num <= SimilarityOf(c, i).den
                    /\ Includes(NormalizedNode(i), SnippetOf(c))
                         => SimilarityOf(c, i).num = SimilarityOf(c, i).den)
    /\ [][\A c \in 1..Len(calls) :
             Strategy5Accepts(c) =>
                \E i \in ScoredNodes(c) :
                    /\ SimilarityOf(c, i).num * 10 > 7 * SimilarityOf(c, i).den
                    /\ \A j \in ScoredNodes(c) :
                          /\ SimilarityOf(c, j).num * SimilarityOf(c, i).den
                               <= SimilarityOf(c, i).num * SimilarityOf(c, j).den
                          /\ j < i =>
                               SimilarityOf(c, j).num * SimilarityOf(c, i).den
                                 < SimilarityOf(c, i).num * SimilarityOf(c, j).den
                    /\ WholeNodeMarked(TextNodes(document)[i])]_vars

\* Strategy 5 accepted the first of two paragraphs that both differ from the
\* snippet in one character of 21.
C31_Witness ==
    \E c \in 1..Len(calls) :
        /\ calls[c].info = FuzzyTieAnchor
        /\ pc[c] = At("running", 6)
        /\ calls[c].highlighted
        /\ calls[c].invoked = <<2, 3, 4, 5>>
        /\ \E m \in MarksIn(document) :
              textContent(NodeAt(document, ElementPaths(document)[m]))
                 = Chars("quick brown fax jumps")

\* The portions strategy 7 searches for call c, normalized: the first 20
\* characters, the last 20, and the 20 around the middle.
PortionsOf(c) ==
    LET text == calls[c].info.originalText
        len == Len(text)
        half == len \div 2
    IN  << normalizeText(SubSeq(text, 1, IF len < 20 THEN len ELSE 20)),
           normalizeText(SubSeq(text, (IF len < 20 THEN 0 ELSE len - 20) + 1, len)),
           normalizeText(SubSeq(text, (IF half < 10 THEN 0 ELSE half - 10) + 1,
                                IF half + 10 > len THEN len ELSE half + 10)) >>

\* Text node i of the body contains portion k of call c.
HoldsPortion(c, k, i) == Includes(NormalizedNode(i), PortionsOf(c)[k])

\* Call c takes its step from Method 7 to the end and strategy 7 accepts.
Strategy7Accepts(c) ==
    /\ pc[c] = At("running", 7)
    /\ pc'[c] = At("running", 8)
    /\ calls'[c].invoked = Append(calls[c].invoked, 7)
    /\ calls'[c].highlighted

\* C32: when strategy 7 succeeds, the node it highlights is the first node in
\* document order that contains portion k, for the first k, in the order
\* first 20, last 20, middle 20, whose normalized form has 8 characters or
\* more and is contained in some node; the whole node is highlighted.
C32_EarliestPortionFirstNode ==
    [][\A c \in 1..Len(calls) :
          Strategy7Accepts(c) =>
             \E k \in 1..3 : \E i \in 1..Len(TextNodes(document)) :
                 /\ Len(PortionsOf(c)[k]) >= 8
                 /\ HoldsPortion(c, k, i)
                 /\ \A j \in 1..(i - 1) : ~ HoldsPortion(c, k, j)
                 /\ \A e \in 1..(k - 1) :
                       Len(PortionsOf(c)[e]) >= 8 =>
                          \A j \in 1..Len(TextNodes(document)) :
                              ~ HoldsPortion(c, e, j)
                 /\ WholeNodeMarked(TextNodes(document)[i])]_vars

\* Strategy 7 accepted the paragraph that holds the first portion, behind
\* two paragraphs that hold the last portion.
C32_Witness ==
    \E c \in 1..Len(calls) :
        /\ calls[c].info = PartialFirstAnchor
        /\ pc[c] = At("running", 8)
        /\ calls[c].highlighted
        /\ calls[c].invoked = <<2, 3, 4, 5, 7>>
        /\ \E m \in MarksIn(document) :
              textContent(NodeAt(document, ElementPaths(document)[m]))
                 = Chars("xx ab cdefgh yy")

-----------------------------------------------------------------------------
(* Claims about the context of the anchor                                  *)

\* The position, in the flattened text of the container, at which the
\* selected span begins: the characters of the text nodes of the container
\* in front of the start of the range.
SpanStart(doc, selection) ==
    LET range == selection.range
        container == commonAncestorContainer(range)
        point == PointPath(doc, range.startContainer, range.startOffset)
        nodes == TextWalker(doc, container)
        F[i \in 0..Len(nodes)] ==
            IF i = 0 THEN 0
            ELSE F[i - 1]
                 + (IF nodes[i] = range.startContainer THEN range.startOffset
                    ELSE IF Precedes(nodes[i], point)
                    THEN Len(DataAt(doc, nodes[i])) ELSE 0)
    IN  F[Len(nodes)]

\* C33: in every message sent with an anchor, if the selected text occurs in
\* the flattened text of the container, textBefore is the 50 characters (or
\* as many as there are) in front of the selected span and textAfter the 50
\* behind it; if it does not occur, both are empty.
C33_ContextFlanksSelectedSpan ==
    \A i \in 1..Len(cSent) :
        LET anchor == cSent[i].data.selectionInfo
            selectedText == SelectionText(cIn.doc, cIn.selection)
            fullText == textContent(NodeAt(cIn.doc,
                            commonAncestorContainer(cIn.selection.range)))
            start == SpanStart(cIn.doc, cIn.selection)
            end == start + Len(selectedText)
            found == \E k \in 0..Len(fullText) : MatchesAt(fullText, selectedText, k)
        IN  ~ anchor.null =>
               IF found
               THEN /\ anchor.textBefore
                         = SubSeq(fullText, (IF start < 50 THEN 0 ELSE start - 50) + 1,
                                  start)
                    /\ anchor.textAfter
                         = SubSeq(fullText, end + 1,
                                  IF end + 50 > Len(fullText) THEN Len(fullText)
                                  ELSE end + 50)
               ELSE anchor.textBefore = <<>> /\ anchor.textAfter = <<>>

\* C34: the anchor of every message sent is the one getSelectionContext
\* builds from the selection the copy event found, the selection whose
\* trimmed text the listener kept as the copied text.
C34_AnchorOfCapturedSelection ==
    \A i \in 1..Len(cSent) :
        \E s \in Selections :
            /\ s.doc = cIn.doc
            /\ Trim(SelectionText(s.doc, s.selection)) = cLocal.copiedText
            /\ cSent[i].data.selectionInfo
                 = getSelectionContext(s.doc, s.selection).anchor

-----------------------------------------------------------------------------
(* Claims about the form of normalized text                                *)

\* C35: the output of normalizeText holds no upper-case letter, no
\* zero-width character, no full-width space, no two spaces in a row, and
\* neither begins nor ends with a space.
C35_OutputCanonical ==
    nApplied = 1 =>
        /\ \A i \in 1..Len(nText) :
              /\ \A u \in 1..Len(UpperLetters) : nText[i] # UpperLetters[u]
              /\ nText[i] \notin {"U200B", "U200C", "U200D", "UFEFF"}
              /\ nText[i] # "U3000"
        /\ \A i \in 1..(Len(nText) - 1) : ~ (nText[i] = " " /\ nText[i + 1] = " ")
        /\ Len(nText) > 0 => nText[1] # " " /\ nText[Len(nText)] # " "

\* C40: a byte-order mark put anywhere into a string leaves its normalized
\* form as it was: normalize(x + BOM + y) = normalize(x + y).
C40_ByteOrderMarkStripped ==
    nApplied = 1 =>
        \A k \in 0..Len(nIn) :
            normalizeText(SubSeq(nIn, 1, k) \o <<"UFEFF">> \o SubSeq(nIn, k + 1, Len(nIn)))
              = nText

-----------------------------------------------------------------------------
(* Claims about the stored history                                         *)

\* Save w has just written its item: the step is the set of saveClipboardItem.
Saves(w) ==
    /\ w \in 1..Len(saves)
    /\ saves[w].at = "read"
    /\ saves'[w].at = "saved"

\* C36: the stored history never holds more than 1000 items; a save that
\* read a history of 1000 items stores its new item at the front, followed
\* by the first 999 items it read: the item dropped is the last one, and no
\* item of the history it read has a smaller timestamp.
C36_AtMostMaxItemsOldestDropped ==
    /\ [](Len(clipboardHistory) <= MAX_ITEMS)
    /\ [][\A w \in 1..MaxSaves :
            Saves(w) /\ Len(saves[w].history) = MAX_ITEMS =>
                LET read == saves[w].history
                IN  /\ Len(clipboardHistory') = MAX_ITEMS
                    /\ clipboardHistory'[1].id = saves'[w].id
                    /\ clipboardHistory'[1].text = saves[w].data.text
                    /\ clipboardHistory'[1].timestamp = saves[w].data.timestamp
                    /\ \A k \in 2..MAX_ITEMS : clipboardHistory'[k] = read[k - 1]
                    /\ \A k \in 1..MAX_ITEMS :
                          read[k].timestamp >= read[MAX_ITEMS].timestamp]_vars

\* A save that read 1000 items has written, and its item is at the front of
\* the 1000 stored items.
C36_Witness ==
    \E w \in 1..Len(saves) :
        /\ saves[w].at = "saved"
        /\ Len(saves[w].history) = MAX_ITEMS
        /\ Len(clipboardHistory) = MAX_ITEMS
        /\ clipboardHistory[1].id = saves[w].id
        /\ MAX_ITEMS \notin Ids(clipboardHistory)

\* C37: while only saves act on the history, it never holds two items of
\* one text and one url that saveClipboardItem stored on the same day.
C37_NoSameDayDuplicate ==
    ledger.ops = 0 =>
        \A i, j \in 1..Len(clipboardHistory) :
            /\ i < j
            /\ clipboardHistory[i].text = clipboardHistory[j].text
            /\ clipboardHistory[i].url = clipboardHistory[j].url
            => ~ \E day \in {p[2] : p \in ledger.savedOn} :
                    /\ <<clipboardHistory[i].id, day>> \in ledger.savedOn
                    /\ <<clipboardHistory[j].id, day>> \in ledger.savedOn

\* An item deleted from the sidebar and absent from the stored history is in
\* it after the step, and the step is not the write of an import.
DeletedReappears ==
    \E id \in ledger.deleted :
        /\ id \notin Ids(clipboardHistory)
        /\ id \in Ids(clipboardHistory')
        /\ ledger'.last.op # "import"

\* An item the service worker saved leaves the stored history by the delete
\* or the edit of another item, or by another save.
SavedRemoved ==
    \E id \in ledger.saved :
        /\ id \in Ids(clipboardHistory)
        /\ id \notin Ids(clipboardHistory')
        /\ \/ ledger'.last.op = "delete" /\ ledger'.last.id # id
           \/ ledger'.last.op = "edit" /\ ledger'.last.id # id
           \/ ledger'.last.op = "save"

\* C38: no step brings back an item deleted from the sidebar, and no delete
\* or edit of another item and no other save removes an item the service
\* worker saved.
C38_NoLostUpdate == [][~ DeletedReappears /\ ~ SavedRemoved]_vars

\* The step is the write of importData.
ImportWrites == job.kind = "import" /\ job'.kind = "none"

\* The step is an importData that ended in its catch.
ImportFails == ledger'.ops = ledger.ops + 1 /\ ledger'.last.op = "import failed"

Items(history) == {history[i] : i \in 1..Len(history)}

\* Every item stored under the id of an item the import read is that item.
ImportedIgnored ==
    LET existingIds == Ids(job.existing)
        existingItems == Items(job.existing)
    IN  \A k \in 1..Len(clipboardHistory') :
            clipboardHistory'[k].id \in existingIds
              => clipboardHistory'[k] \in existingItems

OrderedByTimestamp(history) ==
    \A k \in 1..(Len(history) - 1) : history[k].timestamp >= history[k + 1].timestamp

\* The items the import read whose id is in the file.
Clashing ==
    LET importedIds == Ids(job.data)
    IN  {e \in Items(job.existing) : e.id \in importedIds}

\* C39, as the specification states it: an import stores every item it read
\* whose id the file holds, as it was, and stores under such an id nothing
\* else; it stores a history in descending timestamps; an import of a file
\* that is not valid leaves the stored history as it is.
C39_ImportKeepsExisting ==
    [][/\ ImportWrites =>
            /\ ImportedIgnored
            /\ Clashing \subseteq Items(clipboardHistory')
            /\ OrderedByTimestamp(clipboardHistory')
       /\ ImportFails => clipboardHistory' = clipboardHistory]_vars

\* C39, amended: as above, but an item the import read whose id the file
\* holds may be missing from the stored history when that holds 1000 items,
\* none of them with a smaller timestamp.
C39_ImportKeepsExistingWithinLimit ==
    [][/\ ImportWrites =>
            /\ ImportedIgnored
            /\ \A e \in Clashing \ Items(clipboardHistory') :
                  /\ Len(clipboardHistory') = MAX_ITEMS
                  /\ \A k \in 1..MAX_ITEMS :
                        clipboardHistory'[k].timestamp >= e.timestamp
            /\ OrderedByTimestamp(clipboardHistory')
       /\ ImportFails => clipboardHistory' = clipboardHistory]_vars

\* An import of a file with a new item and with the ids of the first and the
\* last of 1000 stored items has written: the new item and the first item are
\* stored, the last is not.
C39_Witness ==
    /\ ledger.last.op = "import"
    /\ Len(clipboardHistory) = MAX_ITEMS
    /\ 3001 \in Ids(clipboardHistory)
    /\ \E k \in 1..MAX_ITEMS :
          clipboardHistory[k].id = 1 /\ clipboardHistory[k].text = "1"
    /\ MAX_ITEMS \notin Ids(clipboardHistory)

====
